---- MODULE Spec2Model ----
(***************************************************************************)
(* Relay appservice (src/relay/appservice): the loop-prevention            *)
(* classifier, the SQLite event-group store, the puppet manager and the    *)
(* relay handler.                                                          *)
(*                                                                         *)
(* Text.  A Python str is a sequence of symbols.  A symbol stands for a    *)
(* run of characters that the code never looks inside ("relay", "bot",     *)
(* "u", ...) or for a single character the code does look at ("@", ":",    *)
(* "_").  str.split, str.lstrip, str.startswith, str.lower and the f-string*)
(* of mxid_for are computed on these sequences.  A message body is a       *)
(* sequence of character classes of ATTRIBUTION_RE.                        *)
(***************************************************************************)
EXTENDS Integers, Sequences, FiniteSets, TLC

VARIABLES
  \* ---- classifier harness (pure functions of loop_prevention.py)
  cSender, cBody, cOwn, cOut,
  \* ---- EventMap: the two SQLite tables and the wall clock
  groups, members, now,
  \* ---- EventMap harness: the last call and the call it continues
  emLast, emPrev,
  \* ---- EventMap's coroutines in flight: a store and a cleanup
  storing, cleaning,
  \* ---- RelayHandler's configuration
  cfg,
  \* ---- PuppetManager's caches
  intents, display_names, avatar_urls, member_profiles,
  \* ---- homeserver: every event in the rooms, and the events sent by
  \* puppets that are still to be delivered to the relay
  timeline, inbox,
  \* ---- the event handled last and what the handler did; the number of
  \* handlings that hit an injected fault
  last, faulty,
  \* ---- PuppetManager driven directly: what its calls have issued so far
  pm,
  \* ---- the get_intent calls in flight, by task
  acquiring,
  \* ---- mxid_for harness: two sets of arguments and what two managers
  \* derived from them
  derived,
  \* ---- the cleanup task of __main__: where it stands and whether its last
  \* cleanup failed
  loop

clsVars == <<cSender, cBody, cOwn, cOut>>
emVars  == <<groups, members, now, emLast, emPrev>>
engVars == <<cfg, intents, display_names, avatar_urls, member_profiles,
             timeline, inbox, last, faulty, pm, acquiring, derived, loop>>
vars    == <<cSender, cBody, cOwn, cOut,
             groups, members, now, emLast, emPrev, storing, cleaning,
             cfg, intents, display_names, avatar_urls, member_profiles,
             timeline, inbox, last, faulty, pm, acquiring, derived, loop>>

-----------------------------------------------------------------------------
(* Python str operations                                                   *)

\* s.startswith(p)
StartsWith(s, p) ==
  /\ Len(s) >= Len(p)
  /\ SubSeq(s, 1, Len(p)) = p

\* s.split(":")[0]: everything before the first ":" (all of s if none)
SplitColon0(s) ==
  IF \E i \in 1..Len(s) : s[i] = ":"
  THEN LET k == CHOOSE i \in 1..Len(s) :
                  /\ s[i] = ":"
                  /\ \A j \in 1..(i - 1) : s[j] # ":"
       IN SubSeq(s, 1, k - 1)
  ELSE s

\* s.lstrip("@"): drop every leading "@"
LStripAt(s) ==
  IF \A i \in 1..Len(s) : s[i] = "@"
  THEN << >>
  ELSE LET k == CHOOSE i \in 1..Len(s) :
                  /\ s[i] # "@"
                  /\ \A j \in 1..(i - 1) : s[j] = "@"
       IN SubSeq(s, k, Len(s))

\* user_id.split(":")[0].lstrip("@")
Localpart(user_id) == LStripAt(SplitColon0(user_id))

-----------------------------------------------------------------------------
(* loop_prevention.py                                                      *)

BRIDGE_BOT_LOCALPARTS ==
  { <<"whatsapp", "bot">>, <<"discord", "bot">>,
    <<"telegram", "bot">>, <<"signal", "bot">> }

BRIDGE_PUPPET_PREFIXES ==
  { <<"_", "whatsapp", "_">>, <<"_", "discord", "_">>,
    <<"_", "telegram", "_">>, <<"_", "signal", "_">> }

RELAY_PUPPET_PREFIX == <<"_", "relay", "_">>

\* characters of [A-Za-z0-9_ ] after the leading capital
NameChars == {"U", "l", " "}

\* ^\*\*.+\(.*\):\*\*   ("." is any character but a newline)
ReBold(b) ==
  /\ Len(b) >= 8
  /\ b[1] = "*"
  /\ b[2] = "*"
  /\ \E i \in 4..Len(b) : \E j \in (i + 1)..(Len(b) - 3) :
       /\ \A k \in 3..(j - 1) : b[k] # "nl"
       /\ b[i] = "("
       /\ b[j] = ")"
       /\ b[j + 1] = ":"
       /\ b[j + 2] = "*"
       /\ b[j + 3] = "*"

\* ^[A-Z][A-Za-z0-9_ ]+:<space>
RePlain(b) ==
  /\ Len(b) >= 4
  /\ b[1] = "U"
  /\ \E k \in 3..(Len(b) - 1) :
       /\ \A i \in 2..(k - 1) : b[i] \in NameChars
       /\ b[k] = ":"
       /\ b[k + 1] = " "

ATTRIBUTION_RE(b) == ReBold(b) \/ RePlain(b)

is_own_message(sender, bot_mxid) == sender = bot_mxid

is_relay_puppet(user_id) == StartsWith(Localpart(user_id), RELAY_PUPPET_PREFIX)

is_bridge_bot(user_id) == Localpart(user_id) \in BRIDGE_BOT_LOCALPARTS

is_bridge_puppet(user_id) ==
  IF Localpart(user_id) \in BRIDGE_BOT_LOCALPARTS
  THEN TRUE
  ELSE \E p \in BRIDGE_PUPPET_PREFIXES : StartsWith(Localpart(user_id), p)

\* mutant: attribution in the bold form only
has_attribution_bold_only(body) == ReBold(body)

has_attribution(body) == ATTRIBUTION_RE(body)

platform_label(user_id) ==
  LET lp == Localpart(user_id) IN
  IF StartsWith(lp, <<"_", "discord", "_">>) THEN <<"Discord">>
  ELSE IF StartsWith(lp, <<"_", "telegram", "_">>) THEN <<"Telegram">>
  ELSE IF StartsWith(lp, <<"_", "signal", "_">>) THEN <<"Signal">>
  ELSE IF StartsWith(lp, <<"_", "whatsapp", "_">>) THEN <<"WhatsApp">>
  ELSE <<"Matrix">>

\* mutant: the portal filter collapsed into the hub filter
should_ignore_in_portal_as_hub(sender, body, bot_mxid) ==
  IF is_own_message(sender, bot_mxid) THEN TRUE
  ELSE IF is_relay_puppet(sender) THEN TRUE
  ELSE IF is_bridge_puppet(sender) THEN TRUE
  ELSE IF has_attribution(body) THEN TRUE
  ELSE FALSE

\* mutant: the portal filter without the bridge-bot layer
should_ignore_in_portal_no_bot_layer(sender, body, bot_mxid) ==
  IF is_own_message(sender, bot_mxid) THEN TRUE
  ELSE IF is_relay_puppet(sender) THEN TRUE
  ELSE IF has_attribution(body) THEN TRUE
  ELSE FALSE

should_ignore_in_portal(sender, body, bot_mxid) ==
  IF is_own_message(sender, bot_mxid) THEN TRUE
  ELSE IF is_relay_puppet(sender) THEN TRUE
  ELSE IF is_bridge_bot(sender) THEN TRUE
  ELSE IF has_attribution(body) THEN TRUE
  ELSE FALSE

\* mutant: the hub filter that lets bridge puppets through, as the portal
\* filter does
should_ignore_in_hub_as_portal(sender, body, bot_mxid) ==
  IF is_own_message(sender, bot_mxid) THEN TRUE
  ELSE IF is_relay_puppet(sender) THEN TRUE
  ELSE IF is_bridge_bot(sender) THEN TRUE
  ELSE IF has_attribution(body) THEN TRUE
  ELSE FALSE

\* mutant: the hub filter without the relay-puppet layer
should_ignore_in_hub_no_puppet_layer(sender, body, bot_mxid) ==
  IF is_own_message(sender, bot_mxid) THEN TRUE
  ELSE IF is_bridge_puppet(sender) THEN TRUE
  ELSE IF has_attribution(body) THEN TRUE
  ELSE FALSE

should_ignore_in_hub(sender, body, bot_mxid) ==
  IF is_own_message(sender, bot_mxid) THEN TRUE
  ELSE IF is_relay_puppet(sender) THEN TRUE
  ELSE IF is_bridge_puppet(sender) THEN TRUE
  ELSE IF has_attribution(body) THEN TRUE
  ELSE FALSE

-----------------------------------------------------------------------------
(* Classifier harness: the predicates applied to one (sender, body, own)   *)
(* triple.                                                                 *)

MaxLocalLen == 3

SeqUpTo(S, n) == UNION { [1..k -> S] : k \in 1..n }

LocalSymbols ==
  {"_", "relay", "whatsapp", "discord", "telegram", "signal", "bot", "u"}

DOMAIN_NAME == <<"d">>

\* f"@{localpart}:{domain}"
Mxid(localpart) == <<"@">> \o localpart \o <<":">> \o DOMAIN_NAME

\* AppService.bot_mxid for RELAY_BOT_LOCALPART: the default "relay-bot" and a
\* custom one.  The control account lives outside the bridges' and the relay
\* puppets' namespaces.
BotLocalparts == { <<"relay", "-", "bot">>, <<"u", "bot">> }

BotMxids == { Mxid(l) : l \in BotLocalparts }

ClsSenders == { Mxid(l) : l \in SeqUpTo(LocalSymbols, MaxLocalLen) } \cup BotMxids

\* "" | "hi" | "Hello" | "**Al (X):** hi" | "**(X):** hi" | "Al: hi" |
\* "al: hi" | "A: hi" | "Al:hi" | "Al B: hi"
Bodies ==
  { << >>,
    <<"l", "l">>,
    <<"U", "l", "l", "l", "l">>,
    <<"*", "*", "U", "l", " ", "(", "U", ")", ":", "*", "*", " ", "l", "l">>,
    <<"*", "*", "(", "U", ")", ":", "*", "*", " ", "l", "l">>,
    <<"U", "l", ":", " ", "l", "l">>,
    <<"l", "l", ":", " ", "l", "l">>,
    <<"U", ":", " ", "l", "l">>,
    <<"U", "l", ":", "l", "l">>,
    <<"U", "l", " ", "U", ":", " ", "l", "l">> }

NoOut == [done |-> FALSE, portal |-> FALSE, hub |-> FALSE, label |-> << >>]

InitCls ==
  /\ cSender \in ClsSenders
  /\ cBody \in Bodies
  /\ cOwn \in BotMxids
  /\ cOut = NoOut

ClsIdle ==
  /\ cSender = Mxid(<<"u">>)
  /\ cBody = << >>
  /\ cOwn = Mxid(<<"relay", "-", "bot">>)
  /\ cOut = NoOut

Classify ==
  /\ ~cOut.done
  /\ cOut' = [done   |-> TRUE,
              portal |-> should_ignore_in_portal(cSender, cBody, cOwn),
              hub    |-> should_ignore_in_hub(cSender, cBody, cOwn),
              label  |-> platform_label(cSender)]
  /\ UNCHANGED <<cSender, cBody, cOwn>>
  /\ UNCHANGED emVars
  /\ UNCHANGED <<storing, cleaning>>
  /\ UNCHANGED engVars

-----------------------------------------------------------------------------
(* event_map.py.  The table event_group_events is the set `members` of     *)
(* rows [g, room, ev, ts]; the table event_groups is the set `groups` of   *)
(* group ids.  Event ids are numbers so that the UNIQUE(event_id) index    *)
(* has an order; None is 0.                                                *)

None == 0

DaySeconds == 86400

Row(g, room, ev, ts) == [g |-> g, room |-> room, ev |-> ev, ts |-> ts]

Db(gs, ms) == [groups |-> gs, members |-> ms]

\* mutant: REPLACE that resolves only the UNIQUE (event_id) conflict
InsertOrReplace_unique_only(ms, row) ==
  { r \in ms : r.ev # row.ev } \cup {row}

\* INSERT OR REPLACE: rows that conflict on PRIMARY KEY (group_id, room_id)
\* or on UNIQUE (event_id) are deleted, then the row is inserted
InsertOrReplace(ms, row) ==
  { r \in ms : ~(r.g = row.g /\ r.room = row.room) /\ r.ev # row.ev } \cup {row}

\* INSERT OR IGNORE: the row is dropped when it conflicts on either constraint
InsertOrIgnore(ms, row) ==
  IF \E r \in ms : (r.g = row.g /\ r.room = row.room) \/ r.ev = row.ev
  THEN ms
  ELSE ms \cup {row}

\* mutant: the insert that keeps the row a room already has
_upsert_event_or_ignore(ms, group_id, room_id, event_id, created_at) ==
  InsertOrIgnore(ms, Row(group_id, room_id, event_id, created_at))

_upsert_event(ms, group_id, room_id, event_id, created_at) ==
  InsertOrReplace(ms, Row(group_id, room_id, event_id, created_at))

\* the loop over the rows of the absorbed group
RECURSIVE MergeRows(_, _, _)
MergeRows(ms, target_group, rows) ==
  IF rows = {} THEN ms
  ELSE LET r == CHOOSE x \in rows : TRUE
           existing == \E e \in ms : e.g = target_group /\ e.room = r.room
           ms1 == IF existing THEN ms
                  ELSE InsertOrIgnore(ms, Row(target_group, r.room, r.ev, r.ts))
       IN MergeRows(ms1, target_group, rows \ {r})

\* mutant: every row of the absorbed group moves, and replaces the member
\* the surviving group has in its room
_merge_groups_last_wins(db, target_group, group_id) ==
  LET rows == { r \in db.members : r.g = group_id }
      kept == { r \in db.members :
                  /\ r.g # group_id
                  /\ ~(r.g = target_group /\ \E z \in rows : z.room = r.room) }
  IN Db(db.groups \ {group_id},
        kept \cup { Row(target_group, z.room, z.ev, z.ts) : z \in rows })

\* _merge_groups(target_group, [group_id]): at most two ids are looked up,
\* so other_groups holds one group
_merge_groups(db, target_group, group_id) ==
  LET rows == { r \in db.members : r.g = group_id }
      ms1  == MergeRows(db.members, target_group, rows)
      ms2  == { r \in ms1 : r.g # group_id }
  IN Db(db.groups \ {group_id}, ms2)

\* uuid.uuid4().hex: an id no group has
NewGroupId(db) ==
  CHOOSE g \in 1..(Cardinality(db.groups) + 1) :
    /\ g \notin db.groups
    /\ \A h \in 1..(g - 1) : h \in db.groups

\* SELECT group_id ... WHERE event_id IN (?, ?): SQLite walks the unique
\* index on event_id, so the rows come in ascending event_id; then the
\* stable dedupe
FoundGroups(ms, source_event_id, target_event_id) ==
  LET lo == IF source_event_id <= target_event_id
            THEN source_event_id ELSE target_event_id
      hi == IF source_event_id <= target_event_id
            THEN target_event_id ELSE source_event_id
      gl == { r.g : r \in { x \in ms : x.ev = lo } }
      gh == { r.g : r \in { x \in ms : x.ev = hi } }
      sl == IF gl = {} THEN << >> ELSE << CHOOSE g \in gl : TRUE >>
      sh == IF gh = {} \/ gh = gl THEN << >> ELSE << CHOOSE g \in gh : TRUE >>
  IN sl \o sh

\* mutant: a new group for every call
_ensure_group_always_new(db, source_event_id, target_event_id, created_at) ==
  LET g == NewGroupId(db)
  IN [db |-> Db(db.groups \cup {g}, db.members), group_id |-> g]

\* returns [db, group_id]
_ensure_group(db, source_event_id, target_event_id, created_at) ==
  LET group_ids == FoundGroups(db.members, source_event_id, target_event_id) IN
  IF group_ids = << >>
  THEN LET g == NewGroupId(db)
       IN [db |-> Db(db.groups \cup {g}, db.members), group_id |-> g]
  ELSE IF Len(group_ids) > 1
       THEN [db |-> _merge_groups(db, group_ids[1], group_ids[2]),
             group_id |-> group_ids[1]]
       ELSE [db |-> db, group_id |-> group_ids[1]]

\* mutant: the pair always goes into a new group
store_without_group_lookup(db, source_event_id, source_room_id, target_event_id, target_room_id, t) ==
  LET eg  == _ensure_group_always_new(db, source_event_id, target_event_id, t)
      ms1 == _upsert_event(eg.db.members, eg.group_id,
                           source_room_id, source_event_id, t)
      ms2 == _upsert_event(ms1, eg.group_id,
                           target_room_id, target_event_id, t)
  IN Db(eg.db.groups, ms2)

\* EventMap.store with created_at=None, at wall-clock time t
store(db, source_event_id, source_room_id, target_event_id, target_room_id, t) ==
  LET eg  == _ensure_group(db, source_event_id, target_event_id, t)
      ms1 == _upsert_event(eg.db.members, eg.group_id,
                           source_room_id, source_event_id, t)
      ms2 == _upsert_event(ms1, eg.group_id,
                           target_room_id, target_event_id, t)
  IN Db(eg.db.groups, ms2)

\* mutant: the target room's row of any group
lookup_any_group(ms, source_event_id, target_room_id) ==
  IF ~(\E x \in ms : x.ev = source_event_id) THEN None
  ELSE LET row == { r \in ms : r.room = target_room_id }
       IN IF row = {} THEN None ELSE (CHOOSE r \in row : TRUE).ev

\* EventMap.lookup
lookup(ms, source_event_id, target_room_id) ==
  LET group == { r.g : r \in { x \in ms : x.ev = source_event_id } } IN
  IF group = {} THEN None
  ELSE LET g   == CHOOSE x \in group : TRUE
           row == { r \in ms : r.g = g /\ r.room = target_room_id }
       IN IF row = {} THEN None ELSE (CHOOSE r \in row : TRUE).ev

\* mutant: a group goes as soon as one of its members is too old
cleanup_by_group(db, max_age_days, t) ==
  LET cutoff == t - (max_age_days * DaySeconds)
      old    == { r.g : r \in { x \in db.members : x.ts < cutoff } }
      gone   == { r \in db.members : r.g \in old }
      ms1    == db.members \ gone
      gs1    == { g \in db.groups : \E r \in ms1 : r.g = g }
  IN [db |-> Db(gs1, ms1), removed |-> Cardinality(gone)]

\* EventMap.cleanup at wall-clock time t: returns [db, removed]
cleanup(db, max_age_days, t) ==
  LET cutoff == t - (max_age_days * DaySeconds)
      gone   == { r \in db.members : r.ts < cutoff }
      ms1    == db.members \ gone
      gs1    == { g \in db.groups : \E r \in ms1 : r.g = g }
  IN [db |-> Db(gs1, ms1), removed |-> Cardinality(gone)]

-----------------------------------------------------------------------------
(* EventMap driven directly: any sequence of store and cleanup calls as    *)
(* time passes.                                                            *)

MaxEvents == 5
MaxDays == 2

\* Event ids 1..MaxEvents; an event lives in one room (1..4: the hub and three
\* portals), two events of a room differ in their id's rank
EmRoomOf == <<1, 2, 3, 4, 1, 2, 3, 4>>

EmEvents == 1..MaxEvents

\* max_age_days values passed to cleanup
AgeChoices == {0, 1}

NoCall == [op |-> "none", a |-> None, r1 |-> None, b |-> None, r2 |-> None,
           ret |-> 0, again |-> FALSE, collided |-> {}, replaced |-> None]

\* the event ids of the group a store is about to absorb whose room has a
\* member in the group that survives
Collided(ms, a, b) ==
  LET group_ids == FoundGroups(ms, a, b) IN
  IF Len(group_ids) < 2 THEN {}
  ELSE { z.ev : z \in { r \in ms : /\ r.g = group_ids[2]
                                   /\ \E w \in ms : /\ w.g = group_ids[1]
                                                   /\ w.room = r.room } }

EmIdle ==
  /\ groups = {}
  /\ members = {}
  /\ now = DaySeconds
  /\ emLast = NoCall
  /\ emPrev = None

\* store(a, room of a, b, room of b).  When this call continues the store
\* before it (its source is that call's target) with an id b that has no row
\* yet, emPrev keeps that call's source id.  emLast.again tells that the call
\* before it was a store with the same arguments, emLast.replaced is the
\* target of the call before it when that was a store of the same source with
\* another target in the same room, and emLast.collided holds the ids the
\* call's merge found in a room the surviving group has a member in.
EmStore(a, b) ==
  /\ a # b
  /\ EmRoomOf[a] # EmRoomOf[b]
  /\ LET db == store(Db(groups, members), a, EmRoomOf[a], b, EmRoomOf[b], now) IN
       /\ groups' = db.groups
       /\ members' = db.members
  /\ emLast' = [op |-> "store", a |-> a, r1 |-> EmRoomOf[a],
                b |-> b, r2 |-> EmRoomOf[b], ret |-> 0,
                again |-> (emLast.op = "store" /\ emLast.a = a /\ emLast.b = b),
                collided |-> Collided(members, a, b),
                replaced |-> IF /\ emLast.op = "store"
                                /\ emLast.a = a
                                /\ emLast.b # b
                                /\ emLast.r2 = EmRoomOf[b]
                             THEN emLast.b ELSE None]
  /\ emPrev' = IF /\ emLast.op = "store"
                  /\ emLast.b = a
                  /\ ~(\E r \in members : r.ev = b)
               THEN emLast.a ELSE None
  /\ UNCHANGED now
  /\ UNCHANGED <<storing, cleaning>>
  /\ UNCHANGED clsVars
  /\ UNCHANGED engVars

EmCleanup(max_age_days) ==
  /\ LET c == cleanup(Db(groups, members), max_age_days, now) IN
       /\ groups' = c.db.groups
       /\ members' = c.db.members
       /\ emLast' = [op |-> "cleanup", a |-> None, r1 |-> None, b |-> None,
                     r2 |-> max_age_days, ret |-> c.removed, again |-> FALSE,
                     collided |-> {}, replaced |-> None]
  /\ emPrev' = None
  /\ UNCHANGED now
  /\ UNCHANGED <<storing, cleaning>>
  /\ UNCHANGED clsVars
  /\ UNCHANGED engVars

\* time.time() moves on
EmTick ==
  /\ now < MaxDays * DaySeconds
  /\ now' = now + DaySeconds
  /\ UNCHANGED <<groups, members, emLast, emPrev>>
  /\ UNCHANGED <<storing, cleaning>>
  /\ UNCHANGED clsVars
  /\ UNCHANGED engVars

NextEm ==
  \/ \E a \in EmEvents, b \in EmEvents : EmStore(a, b)
  \/ \E d \in AgeChoices : EmCleanup(d)
  \/ EmTick

-----------------------------------------------------------------------------
(* EventMap.store and the cleanup of cleanup_loop as two coroutines on the *)
(* one aiosqlite connection: a coroutine gives way to the other at each    *)
(* await, so a step is one awaited statement.  The connection is shared,   *)
(* nothing is rolled back, so a commit changes no table.                   *)

ccVars == <<storing, cleaning>>

\* the calls of store and of cleanup in one behaviour
MaxStores == 3
MaxCleanups == 1

\* calls counts the calls made so far
NotStoring(calls) ==
  [pc |-> "idle", a |-> None, b |-> None, t |-> 0, group_ids |-> << >>,
   group_id |-> None, rows |-> {}, calls |-> calls]

NotCleaning(calls) ==
  [pc |-> "idle", max_age_days |-> 0, removed |-> 0, calls |-> calls]

CcIdle ==
  /\ storing = NotStoring(0)
  /\ cleaning = NotCleaning(0)

\* uuid.uuid4().hex: an id that never was a group's
FreshGroupId(gs, ms) ==
  CHOOSE g \in 1..(Cardinality(gs) + Cardinality(ms) + 1) :
    /\ g \notin gs \cup { r.g : r \in ms }
    /\ \A h \in 1..(g - 1) : h \in gs \cup { r.g : r \in ms }

\* the row the loop of _merge_groups is at: rows come in the order of the
\* primary key (group_id, room_id)
FirstRow(rows) == CHOOSE r \in rows : \A x \in rows : r.room <= x.room

\* store(a, room of a, b, room of b) is called: now = time.time()
StCall(a, b) ==
  /\ storing.pc = "idle"
  /\ storing.calls < MaxStores
  /\ a # b
  /\ EmRoomOf[a] # EmRoomOf[b]
  /\ storing' = [NotStoring(storing.calls + 1) EXCEPT
                   !.pc = "select", !.a = a, !.b = b, !.t = now]
  /\ UNCHANGED <<groups, members, now, emLast, emPrev, cleaning>>
  /\ UNCHANGED clsVars
  /\ UNCHANGED engVars

\* _ensure_group: SELECT group_id ... WHERE event_id IN (?, ?)
StSelectGroups ==
  /\ storing.pc = "select"
  /\ \E ids \in {FoundGroups(members, storing.a, storing.b)} :
       storing' = [storing EXCEPT
                     !.group_ids = ids,
                     !.group_id = IF ids = << >> THEN None ELSE ids[1],
                     !.pc = IF ids = << >> THEN "insert_group"
                            ELSE IF Len(ids) > 1 THEN "merge_select"
                            ELSE "upsert_source"]
  /\ UNCHANGED <<groups, members, now, emLast, emPrev, cleaning>>
  /\ UNCHANGED clsVars
  /\ UNCHANGED engVars

\* _ensure_group: INSERT INTO event_groups
StInsertGroup ==
  /\ storing.pc = "insert_group"
  /\ \E g \in {FreshGroupId(groups, members)} :
       /\ groups' = groups \cup {g}
       /\ storing' = [storing EXCEPT !.group_id = g, !.pc = "upsert_source"]
  /\ UNCHANGED <<members, now, emLast, emPrev, cleaning>>
  /\ UNCHANGED clsVars
  /\ UNCHANGED engVars

\* _merge_groups: SELECT the rows of the absorbed group
MgSelectRows ==
  /\ storing.pc = "merge_select"
  /\ \E rows \in {{ r \in members : r.g = storing.group_ids[2] }} :
       storing' = [storing EXCEPT
                     !.rows = rows,
                     !.pc = IF rows = {} THEN "merge_delete_rows"
                            ELSE "merge_existing"]
  /\ UNCHANGED <<groups, members, now, emLast, emPrev, cleaning>>
  /\ UNCHANGED clsVars
  /\ UNCHANGED engVars

\* _merge_groups: SELECT 1 ... WHERE group_id = target AND room_id = ?; a
\* room the surviving group has a row in is passed over
MgSelectExisting ==
  /\ storing.pc = "merge_existing"
  /\ \E r \in {FirstRow(storing.rows)} :
       IF \E e \in members : e.g = storing.group_id /\ e.room = r.room
       THEN storing' = [storing EXCEPT
                          !.rows = storing.rows \ {r},
                          !.pc = IF storing.rows = {r} THEN "merge_delete_rows"
                                 ELSE "merge_existing"]
       ELSE storing' = [storing EXCEPT !.pc = "merge_insert"]
  /\ UNCHANGED <<groups, members, now, emLast, emPrev, cleaning>>
  /\ UNCHANGED clsVars
  /\ UNCHANGED engVars

\* _merge_groups: INSERT OR IGNORE the row into the surviving group
MgInsert ==
  /\ storing.pc = "merge_insert"
  /\ \E r \in {FirstRow(storing.rows)} :
       /\ members' = InsertOrIgnore(members,
                                    Row(storing.group_id, r.room, r.ev, r.ts))
       /\ storing' = [storing EXCEPT
                        !.rows = storing.rows \ {r},
                        !.pc = IF storing.rows = {r} THEN "merge_delete_rows"
                               ELSE "merge_existing"]
  /\ UNCHANGED <<groups, now, emLast, emPrev, cleaning>>
  /\ UNCHANGED clsVars
  /\ UNCHANGED engVars

\* _merge_groups: DELETE the rows of the absorbed group
MgDeleteRows ==
  /\ storing.pc = "merge_delete_rows"
  /\ members' = { r \in members : r.g # storing.group_ids[2] }
  /\ storing' = [storing EXCEPT !.rows = {}, !.pc = "merge_delete_group"]
  /\ UNCHANGED <<groups, now, emLast, emPrev, cleaning>>
  /\ UNCHANGED clsVars
  /\ UNCHANGED engVars

\* _merge_groups: DELETE the absorbed group
MgDeleteGroup ==
  /\ storing.pc = "merge_delete_group"
  /\ groups' = groups \ {storing.group_ids[2]}
  /\ storing' = [storing EXCEPT !.pc = "merge_commit"]
  /\ UNCHANGED <<members, now, emLast, emPrev, cleaning>>
  /\ UNCHANGED clsVars
  /\ UNCHANGED engVars

\* _merge_groups: commit
MgCommit ==
  /\ storing.pc = "merge_commit"
  /\ storing' = [storing EXCEPT !.pc = "upsert_source"]
  /\ UNCHANGED <<groups, members, now, emLast, emPrev, cleaning>>
  /\ UNCHANGED clsVars
  /\ UNCHANGED engVars

\* store: _upsert_event of the source
StUpsertSource ==
  /\ storing.pc = "upsert_source"
  /\ members' = _upsert_event(members, storing.group_id, EmRoomOf[storing.a],
                              storing.a, storing.t)
  /\ storing' = [storing EXCEPT !.pc = "upsert_target"]
  /\ UNCHANGED <<groups, now, emLast, emPrev, cleaning>>
  /\ UNCHANGED clsVars
  /\ UNCHANGED engVars

\* store: _upsert_event of the target
StUpsertTarget ==
  /\ storing.pc = "upsert_target"
  /\ members' = _upsert_event(members, storing.group_id, EmRoomOf[storing.b],
                              storing.b, storing.t)
  /\ storing' = [storing EXCEPT !.pc = "commit"]
  /\ UNCHANGED <<groups, now, emLast, emPrev, cleaning>>
  /\ UNCHANGED clsVars
  /\ UNCHANGED engVars

\* store: commit, and the call returns
StCommit ==
  /\ storing.pc = "commit"
  /\ storing' = NotStoring(storing.calls)
  /\ emLast' = [op |-> "store", a |-> storing.a, r1 |-> EmRoomOf[storing.a],
                b |-> storing.b, r2 |-> EmRoomOf[storing.b], ret |-> storing.t,
                again |-> FALSE]
  /\ UNCHANGED <<groups, members, now, emPrev, cleaning>>
  /\ UNCHANGED clsVars
  /\ UNCHANGED engVars

\* cleanup(max_age_days): DELETE FROM event_group_events WHERE created_at < ?
ClDeleteRows(max_age_days) ==
  /\ cleaning.pc = "idle"
  /\ cleaning.calls < MaxCleanups
  /\ \E gone \in {{ r \in members : r.ts < now - (max_age_days * DaySeconds) }} :
       /\ members' = members \ gone
       /\ cleaning' = [pc |-> "commit", max_age_days |-> max_age_days,
                       removed |-> Cardinality(gone),
                       calls |-> cleaning.calls + 1]
  /\ UNCHANGED <<groups, now, emLast, emPrev, storing>>
  /\ UNCHANGED clsVars
  /\ UNCHANGED engVars

\* cleanup: the first commit
ClCommit ==
  /\ cleaning.pc = "commit"
  /\ cleaning' = [cleaning EXCEPT !.pc = "delete_groups"]
  /\ UNCHANGED <<groups, members, now, emLast, emPrev, storing>>
  /\ UNCHANGED clsVars
  /\ UNCHANGED engVars

\* cleanup: DELETE FROM event_groups WHERE group_id NOT IN (SELECT ...)
ClDeleteGroups ==
  /\ cleaning.pc = "delete_groups"
  /\ groups' = { g \in groups : \E r \in members : r.g = g }
  /\ cleaning' = [cleaning EXCEPT !.pc = "commit_groups"]
  /\ UNCHANGED <<members, now, emLast, emPrev, storing>>
  /\ UNCHANGED clsVars
  /\ UNCHANGED engVars

\* cleanup: the second commit, and the call returns removed
ClReturn ==
  /\ cleaning.pc = "commit_groups"
  /\ cleaning' = NotCleaning(cleaning.calls)
  /\ emLast' = [op |-> "cleanup", a |-> None, r1 |-> None, b |-> None,
                r2 |-> cleaning.max_age_days, ret |-> cleaning.removed,
                again |-> FALSE]
  /\ UNCHANGED <<groups, members, now, emPrev, storing>>
  /\ UNCHANGED clsVars
  /\ UNCHANGED engVars

\* time.time() moves on
CcTick ==
  /\ now < MaxDays * DaySeconds
  /\ now' = now + DaySeconds
  /\ UNCHANGED <<groups, members, emLast, emPrev>>
  /\ UNCHANGED ccVars
  /\ UNCHANGED clsVars
  /\ UNCHANGED engVars

NextCc ==
  \/ \E a \in EmEvents, b \in EmEvents : StCall(a, b)
  \/ StSelectGroups
  \/ StInsertGroup
  \/ MgSelectRows
  \/ MgSelectExisting
  \/ MgInsert
  \/ MgDeleteRows
  \/ MgDeleteGroup
  \/ MgCommit
  \/ StUpsertSource
  \/ StUpsertTarget
  \/ StCommit
  \/ \E d \in AgeChoices : ClDeleteRows(d)
  \/ ClCommit
  \/ ClDeleteGroups
  \/ ClReturn
  \/ CcTick

-----------------------------------------------------------------------------
(* The relay at work.  A handler runs on a world w: the puppet manager's   *)
(* four caches, the two EventMap tables, the log `calls` of the calls it   *)
(* made, the events `sent` that its sends created on the homeserver, the   *)
(* next event id the homeserver hands out, `root` (the inbound event from  *)
(* outside that started it all), `raised` (an exception left the handler)  *)
(* and `fired` (how many injected faults were hit).                        *)

NoRoom == ""
NoKey == ""
NoText == << >>

\* avatar_url None
NoAvatar == << >>

Call(op, mxid, room, name, avatar, body, ref, key, ok) ==
  [op |-> op, mxid |-> mxid, room |-> room, name |-> name, avatar |-> avatar,
   body |-> body, ref |-> ref, key |-> key, ok |-> ok]

Event(kind, id, room, sender, body, rel, key, root) ==
  [kind |-> kind, id |-> id, room |-> room, sender |-> sender, body |-> body,
   rel |-> rel, key |-> key, root |-> root]

Log(w, call) == [w EXCEPT !.calls = Append(@, call)]

\* an awaited call that raises when the fault plan says so
Api(w, call, raises) ==
  IF raises
  THEN [w EXCEPT !.calls = Append(@, [call EXCEPT !.ok = FALSE]),
                 !.fired = @ + 1]
  ELSE Log(w, call)

\* dict as a set of <<key, value>> pairs
DHas(d, k) == \E p \in d : p[1] = k

DGet(d, k) == (CHOOSE p \in d : p[1] = k)[2]

DPut(d, k, v) == { p \in d : p[1] # k } \cup { <<k, v>> }

\* the element of a one-element set; Only({ e : x \in {v} }) is e with x
\* standing for the value of v, which is computed once
Only(S) == CHOOSE v \in S : TRUE

\* a fault plan names, for the i-th target of a handling, the call that
\* raises ("none": no call does)
NoFaults == << >>

PlanAt(plan, i) == IF i \in DOMAIN plan THEN plan[i] ELSE "none"

-----------------------------------------------------------------------------
(* puppet.py                                                               *)

\* str.lower() of a platform label
LowerSym(c) ==
  CASE c = "WhatsApp" -> "whatsapp"
    [] c = "Signal"   -> "signal"
    [] c = "Telegram" -> "telegram"
    [] c = "Discord"  -> "discord"
    [] c = "Matrix"   -> "matrix"
    [] OTHER          -> c

Lower(s) == [i \in 1..Len(s) |-> LowerSym(s[i])]

SymbolCode(c) ==
  CASE c = "@"        -> 1
    [] c = ":"        -> 2
    [] c = "_"        -> 3
    [] c = "relay"    -> 4
    [] c = "whatsapp" -> 5
    [] c = "discord"  -> 6
    [] c = "telegram" -> 7
    [] c = "signal"   -> 8
    [] c = "matrix"   -> 9
    [] c = "bot"      -> 10
    [] c = "u"        -> 11
    [] c = "-"        -> 12
    [] c = "d"        -> 13
    [] OTHER          -> 14

RECURSIVE Digest(_)
Digest(raw) ==
  IF raw = << >> THEN 5
  ELSE (31 * Digest(SubSeq(raw, 1, Len(raw) - 1)) + SymbolCode(raw[Len(raw)]))
         % 65536

HashSymbols == <<"h0", "h1", "h2", "h3", "h4", "h5", "h6", "h7">>

\* hashlib.sha256(raw.encode()).hexdigest()[:8]: a symbol that the input
\* alone determines
Hash8(raw) == HashSymbols[(Digest(raw) % Len(HashSymbols)) + 1]

\* mutant: the identifier without the relay prefix
mxid_for_unprefixed(platform, sender) ==
  <<"@">> \o platform \o <<"_", Hash8(platform \o <<":">> \o sender)>>
    \o <<":">> \o DOMAIN_NAME

\* mutant: the identifier of the lower-cased platform
mxid_for_lowered(platform, sender) ==
  <<"@", "_", "relay", "_">> \o Lower(platform)
    \o <<"_", Hash8(Lower(platform) \o <<":">> \o sender)>>
    \o <<":">> \o DOMAIN_NAME

mxid_for(platform, sender) ==
  <<"@", "_", "relay", "_">> \o platform
    \o <<"_", Hash8(platform \o <<":">> \o sender)>>
    \o <<":">> \o DOMAIN_NAME

\* PuppetManager._send_member_event: returns [w, ok]
_send_member_event(w, mxid, room_id, display_name, avatar_url, fault) ==
  [w  |-> Api(w, Call("send_state_event", mxid, room_id, display_name,
                      avatar_url, NoText, None, NoKey, TRUE),
              fault = "send_state_event"),
   ok |-> fault # "send_state_event"]

\* mutant: a known puppet keeps the avatar it was registered with
AccountStage_avatar_once(w, mxid, display_name, avatar_url, fault) ==
  IF mxid \notin w.intents
  THEN
    LET w1 == Api(w, Call("ensure_registered", mxid, NoRoom, NoText, NoAvatar,
                          NoText, None, NoKey, TRUE),
                  fault = "ensure_registered")
        w2 == Api(w1, Call("set_displayname", mxid, NoRoom, display_name,
                           NoAvatar, NoText, None, NoKey, TRUE),
                  fault = "set_displayname")
        w3 == [w2 EXCEPT !.intents = @ \cup {mxid},
                         !.display_names = DPut(@, mxid, display_name)]
        w4 == Api(w3, Call("set_avatar_url", mxid, NoRoom, NoText, avatar_url,
                           NoText, None, NoKey, TRUE),
                  fault = "set_avatar_url")
    IN [w  |-> [(IF avatar_url # NoAvatar THEN w4 ELSE w3) EXCEPT
                  !.avatar_urls = DPut(@, mxid, avatar_url)],
        ok |-> TRUE]
  ELSE
    LET newName == DGet(w.display_names, mxid) # display_name
        w1 == IF newName
              THEN Api(w, Call("set_displayname", mxid, NoRoom, display_name,
                               NoAvatar, NoText, None, NoKey, TRUE),
                       fault = "set_displayname")
              ELSE w
    IN [w  |-> IF newName
               THEN [w1 EXCEPT !.display_names = DPut(@, mxid, display_name)]
               ELSE w1,
        ok |-> TRUE]

\* get_intent, lines 99-115: the account.  Returns [w, ok].
AccountStage(w, mxid, display_name, avatar_url, fault) ==
  IF mxid \notin w.intents
  THEN
    LET w1 == Api(w, Call("ensure_registered", mxid, NoRoom, NoText, NoAvatar,
                          NoText, None, NoKey, TRUE),
                  fault = "ensure_registered")
        w2 == Api(w1, Call("set_displayname", mxid, NoRoom, display_name,
                           NoAvatar, NoText, None, NoKey, TRUE),
                  fault = "set_displayname")
        w3 == [w2 EXCEPT !.intents = @ \cup {mxid},
                         !.display_names = DPut(@, mxid, display_name)]
        w4 == Api(w3, Call("set_avatar_url", mxid, NoRoom, NoText, avatar_url,
                           NoText, None, NoKey, TRUE),
                  fault = "set_avatar_url")
    IN IF fault = "ensure_registered" THEN [w |-> w1, ok |-> FALSE]
       ELSE IF fault = "set_displayname" THEN [w |-> w2, ok |-> FALSE]
       ELSE IF avatar_url # NoAvatar
            THEN IF fault = "set_avatar_url" THEN [w |-> w4, ok |-> FALSE]
                 ELSE [w  |-> [w4 EXCEPT !.avatar_urls =
                                           DPut(@, mxid, avatar_url)],
                       ok |-> TRUE]
            ELSE [w  |-> [w3 EXCEPT !.avatar_urls = DPut(@, mxid, avatar_url)],
                  ok |-> TRUE]
  ELSE
    LET newName == \/ ~DHas(w.display_names, mxid)
                   \/ DGet(w.display_names, mxid) # display_name
        w1 == IF newName
              THEN Api(w, Call("set_displayname", mxid, NoRoom, display_name,
                               NoAvatar, NoText, None, NoKey, TRUE),
                       fault = "set_displayname")
              ELSE w
        w2 == IF newName
              THEN [w1 EXCEPT !.display_names = DPut(@, mxid, display_name)]
              ELSE w1
        cached == IF DHas(w.avatar_urls, mxid)
                  THEN DGet(w.avatar_urls, mxid) ELSE NoAvatar
        newAvatar == cached # avatar_url
        w3 == IF newAvatar
              THEN Api(w2, Call("set_avatar_url", mxid, NoRoom, NoText,
                                avatar_url, NoText, None, NoKey, TRUE),
                       fault = "set_avatar_url")
              ELSE w2
    IN IF newName /\ fault = "set_displayname" THEN [w |-> w1, ok |-> FALSE]
       ELSE IF newAvatar /\ fault = "set_avatar_url"
            THEN [w |-> w3, ok |-> FALSE]
            ELSE [w  |-> IF newAvatar
                         THEN [w3 EXCEPT !.avatar_urls =
                                           DPut(@, mxid, avatar_url)]
                         ELSE w3,
                  ok |-> TRUE]

\* mutant: the first entry is a bare join followed by the membership event
MemberStage_join_then_profile(w, mxid, room_id, display_name, avatar_url, sync_member_state, fault) ==
  LET current_profile == <<display_name, avatar_url>>
      member_key == <<mxid, room_id>>
      first == ~DHas(w.member_profiles, member_key)
      changed == ~first /\ DGet(w.member_profiles, member_key) # current_profile
      j == Api(w, Call("ensure_joined", mxid, room_id, NoText, NoAvatar,
                       NoText, None, NoKey, TRUE),
               fault = "ensure_joined")
      s == _send_member_event(IF first THEN j ELSE w, mxid, room_id,
                              display_name, avatar_url, fault)
  IN IF first \/ (changed /\ sync_member_state)
     THEN IF s.ok
          THEN [w  |-> [s.w EXCEPT !.member_profiles =
                                     DPut(@, member_key, current_profile)],
                ok |-> TRUE]
          ELSE s
     ELSE [w |-> j, ok |-> fault # "ensure_joined"]

\* mutant: a changed profile is written into every room
MemberStage_always_resync(w, mxid, room_id, display_name, avatar_url, sync_member_state, fault) ==
  LET current_profile == <<display_name, avatar_url>>
      member_key == <<mxid, room_id>>
      first == ~DHas(w.member_profiles, member_key)
      changed == ~first /\ DGet(w.member_profiles, member_key) # current_profile
      s == _send_member_event(w, mxid, room_id, display_name, avatar_url, fault)
  IN IF first \/ changed
     THEN IF s.ok
          THEN [w  |-> [s.w EXCEPT !.member_profiles =
                                     DPut(@, member_key, current_profile)],
                ok |-> TRUE]
          ELSE s
     ELSE [w  |-> Api(w, Call("ensure_joined", mxid, room_id, NoText, NoAvatar,
                              NoText, None, NoKey, TRUE),
                      fault = "ensure_joined"),
           ok |-> fault # "ensure_joined"]

\* mutant: only a changed display name counts as a changed profile
MemberStage_name_only(w, mxid, room_id, display_name, avatar_url, sync_member_state, fault) ==
  LET current_profile == <<display_name, avatar_url>>
      member_key == <<mxid, room_id>>
      first == ~DHas(w.member_profiles, member_key)
      changed == ~first /\ DGet(w.member_profiles, member_key)[1] # display_name
      s == _send_member_event(w, mxid, room_id, display_name, avatar_url, fault)
  IN IF first \/ (changed /\ sync_member_state)
     THEN IF s.ok
          THEN [w  |-> [s.w EXCEPT !.member_profiles =
                                     DPut(@, member_key, current_profile)],
                ok |-> TRUE]
          ELSE s
     ELSE [w  |-> Api(w, Call("ensure_joined", mxid, room_id, NoText, NoAvatar,
                              NoText, None, NoKey, TRUE),
                      fault = "ensure_joined"),
           ok |-> fault # "ensure_joined"]

\* mutant: the profile is recorded before the membership event is sent
MemberStage_record_first(w, mxid, room_id, display_name, avatar_url, sync_member_state, fault) ==
  LET current_profile == <<display_name, avatar_url>>
      member_key == <<mxid, room_id>>
      first == ~DHas(w.member_profiles, member_key)
      changed == ~first /\ DGet(w.member_profiles, member_key) # current_profile
      s == _send_member_event(w, mxid, room_id, display_name, avatar_url, fault)
  IN IF first \/ (changed /\ sync_member_state)
     THEN [w  |-> [s.w EXCEPT !.member_profiles =
                                DPut(@, member_key, current_profile)],
           ok |-> s.ok]
     ELSE [w  |-> Api(w, Call("ensure_joined", mxid, room_id, NoText, NoAvatar,
                              NoText, None, NoKey, TRUE),
                      fault = "ensure_joined"),
           ok |-> fault # "ensure_joined"]

\* get_intent, lines 126-141: the room membership.  Returns [w, ok].
MemberStage(w, mxid, room_id, display_name, avatar_url, sync_member_state, fault) ==
  LET current_profile == <<display_name, avatar_url>>
      member_key == <<mxid, room_id>>
      first == ~DHas(w.member_profiles, member_key)
      changed == ~first /\ DGet(w.member_profiles, member_key) # current_profile
      s == _send_member_event(w, mxid, room_id, display_name, avatar_url, fault)
  IN IF first \/ (changed /\ sync_member_state)
     THEN IF s.ok
          THEN [w  |-> [s.w EXCEPT !.member_profiles =
                                     DPut(@, member_key, current_profile)],
                ok |-> TRUE]
          ELSE s
     ELSE [w  |-> Api(w, Call("ensure_joined", mxid, room_id, NoText, NoAvatar,
                              NoText, None, NoKey, TRUE),
                      fault = "ensure_joined"),
           ok |-> fault # "ensure_joined"]

\* get_intent once mxid is computed (line 97)
GetIntentAs(w, mxid, display_name, avatar_url, room_id, sync_member_state, fault) ==
  Only({ IF a.ok
         THEN MemberStage(a.w, mxid, room_id, display_name, avatar_url,
                          sync_member_state, fault)
         ELSE a :
         a \in { AccountStage(Log(w, Call("get_intent", mxid, room_id,
                                          display_name, avatar_url, NoText,
                                          None, NoKey, TRUE)),
                              mxid, display_name, avatar_url, fault) } })

\* PuppetManager.get_intent: returns [w, ok]; ok is FALSE when a call raised,
\* otherwise the intent of mxid_for(platform, sender) is returned
get_intent(w, platform, sender, display_name, avatar_url, room_id, sync_member_state, fault) ==
  Only({ GetIntentAs(w, mxid, display_name, avatar_url, room_id,
                     sync_member_state, fault) :
         mxid \in { mxid_for(platform, sender) } })

-----------------------------------------------------------------------------
(* handler.py                                                              *)

\* RelayConfig: portal_rooms (a dict: room id -> label, in insertion
\* order), hub_room_id and the control account
PortalIds(c) == [i \in 1..Len(c.portal_rooms) |-> c.portal_rooms[i].room]

InPortals(c, room_id) ==
  \E i \in 1..Len(c.portal_rooms) : c.portal_rooms[i].room = room_id

\* self._portal_rooms[room_id]
PortalLabel(c, room_id) ==
  c.portal_rooms[CHOOSE i \in 1..Len(c.portal_rooms) :
                   c.portal_rooms[i].room = room_id].label

\* _get_reply_to
_get_reply_to(event) == event.rel

\* mutant: the fallback that keeps the avatar the profile answered
_get_sender_profile_keeps_avatar(w, sender, profile) ==
  LET w1 == Log(w, Call("get_profile", sender, NoRoom,
                        IF profile.raises THEN NoText ELSE profile.displayname,
                        IF profile.raises THEN NoAvatar ELSE profile.avatar_url,
                        NoText, None, NoKey, ~profile.raises))
  IN IF ~profile.raises /\ profile.displayname # NoText
     THEN [w |-> w1, display_name |-> profile.displayname,
           avatar_url |-> profile.avatar_url]
     ELSE [w |-> w1, display_name |-> Localpart(sender),
           avatar_url |-> IF profile.raises THEN NoAvatar
                          ELSE profile.avatar_url]

\* _get_sender_profile: `profile` is what get_profile answers,
\* [raises, displayname, avatar_url].  Returns [w, display_name, avatar_url].
_get_sender_profile(w, sender, profile) ==
  LET w1 == Log(w, Call("get_profile", sender, NoRoom,
                        IF profile.raises THEN NoText ELSE profile.displayname,
                        IF profile.raises THEN NoAvatar ELSE profile.avatar_url,
                        NoText, None, NoKey, ~profile.raises))
  IN IF ~profile.raises /\ profile.displayname # NoText
     THEN [w |-> w1, display_name |-> profile.displayname,
           avatar_url |-> profile.avatar_url]
     ELSE [w |-> w1, display_name |-> Localpart(sender),
           avatar_url |-> NoAvatar]

\* SendVia replying to the id the source room knows, without lookup's answer
SendVia_source_id(g, mxid, room_id, body, reply_to_source, target_room_id, fault) ==
  LET asked == reply_to_source # None /\ target_room_id # NoRoom
      wl == IF asked
            THEN Api(g.w, Call("lookup", mxid, target_room_id, NoText,
                               NoAvatar, NoText, reply_to_source, NoKey, TRUE),
                     fault = "lookup")
            ELSE g.w
      mapped_reply_to == IF asked
                         THEN reply_to_source
                         ELSE None
      ws == Api(wl, Call(IF mapped_reply_to # None
                         THEN "send_message" ELSE "send_text",
                         mxid, room_id, NoText, NoAvatar, body,
                         mapped_reply_to, NoKey, TRUE),
                fault = "send")
  IN IF ~g.ok THEN [w |-> g.w, event_id |-> None, failed |-> TRUE]
     ELSE IF asked /\ fault = "lookup"
          THEN [w |-> wl, event_id |-> None, failed |-> TRUE]
     ELSE IF fault = "send"
          THEN [w |-> ws, event_id |-> None, failed |-> TRUE]
     ELSE [w |-> [ws EXCEPT
                    !.sent = Append(@, Event("message", ws.next, room_id, mxid,
                                             body, mapped_reply_to, NoKey,
                                             ws.root)),
                    !.next = @ + 1],
           event_id |-> ws.next, failed |-> FALSE]

\* _send_as_puppet after `intent = await get_intent(...)`; g is what
\* get_intent returned and mxid the intent's user id
SendVia(g, mxid, room_id, body, reply_to_source, target_room_id, fault) ==
  LET asked == reply_to_source # None /\ target_room_id # NoRoom
      wl == IF asked
            THEN Api(g.w, Call("lookup", mxid, target_room_id, NoText,
                               NoAvatar, NoText, reply_to_source, NoKey, TRUE),
                     fault = "lookup")
            ELSE g.w
      mapped_reply_to == IF asked
                         THEN lookup(g.w.members, reply_to_source, target_room_id)
                         ELSE None
      ws == Api(wl, Call(IF mapped_reply_to # None
                         THEN "send_message" ELSE "send_text",
                         mxid, room_id, NoText, NoAvatar, body,
                         mapped_reply_to, NoKey, TRUE),
                fault = "send")
  IN IF ~g.ok THEN [w |-> g.w, event_id |-> None, failed |-> TRUE]
     ELSE IF asked /\ fault = "lookup"
          THEN [w |-> wl, event_id |-> None, failed |-> TRUE]
     ELSE IF fault = "send"
          THEN [w |-> ws, event_id |-> None, failed |-> TRUE]
     ELSE [w |-> [ws EXCEPT
                    !.sent = Append(@, Event("message", ws.next, room_id, mxid,
                                             body, mapped_reply_to, NoKey,
                                             ws.root)),
                    !.next = @ + 1],
           event_id |-> ws.next, failed |-> FALSE]

\* the body of the try in _send_as_puppet: returns [w, event_id, failed];
\* failed when a call raised
SendAttempt(w, platform, sender, display_name, avatar_url, room_id, body, reply_to_source, target_room_id, fault) ==
  Only({ SendVia(g, mxid, room_id, body, reply_to_source, target_room_id,
                 fault) :
         g \in { get_intent(w, platform, sender, display_name, avatar_url,
                            room_id, FALSE, fault) },
         mxid \in { mxid_for(platform, sender) } })

\* mutant: _send_as_puppet without its try/except
_send_as_puppet_no_catch(w, platform, sender, display_name, avatar_url, room_id, body, reply_to_source, target_room_id, fault) ==
  Only({ [w |-> [t.w EXCEPT !.raised = t.failed], event_id |-> t.event_id] :
         t \in { SendAttempt(w, platform, sender, display_name, avatar_url,
                             room_id, body, reply_to_source, target_room_id,
                             fault) } })

\* _send_as_puppet: returns [w, event_id]; an exception inside gives None
_send_as_puppet(w, platform, sender, display_name, avatar_url, room_id, body, reply_to_source, target_room_id, fault) ==
  Only({ [w |-> t.w, event_id |-> t.event_id] :
         t \in { SendAttempt(w, platform, sender, display_name, avatar_url,
                             room_id, body, reply_to_source, target_room_id,
                             fault) } })

\* `await self._event_map.store(...)` in the fan-out loops: it is outside
\* any try, so a store that raises leaves handle_message
StoreStep(w, source_event_id, source_room_id, target_event_id, target_room_id, fault) ==
  LET w1 == Api(w, Call("store", NoText, target_room_id, NoText, NoAvatar,
                        NoText, target_event_id, NoKey, TRUE),
                fault = "store")
  IN IF fault = "store" THEN [w1 EXCEPT !.raised = TRUE]
     ELSE Only({ [w1 EXCEPT !.groups = db.groups, !.members = db.members] :
                 db \in { store(Db(w.groups, w.members), source_event_id,
                                source_room_id, target_event_id,
                                target_room_id, w.now) } })

\* mutant: the fan-out step without `if event_id and self._event_map`
RelayOne_store_always(w, event, platform, display_name, avatar_url, target, fault) ==
  Only({ IF s.w.raised THEN s.w
         ELSE IF TRUE
              THEN StoreStep(s.w, event.id, event.room, s.event_id, target,
                             fault)
              ELSE s.w :
         s \in { _send_as_puppet(w, platform, event.sender, display_name,
                                 avatar_url, target, event.body,
                                 _get_reply_to(event), target, fault) } })

\* one target of a fan-out: _send_as_puppet, then store if it returned an id
RelayOne(w, event, platform, display_name, avatar_url, target, fault) ==
  Only({ IF s.w.raised THEN s.w
         ELSE IF s.event_id # None
              THEN StoreStep(s.w, event.id, event.room, s.event_id, target,
                             fault)
              ELSE s.w :
         s \in { _send_as_puppet(w, platform, event.sender, display_name,
                                 avatar_url, target, event.body,
                                 _get_reply_to(event), target, fault) } })

\* the targets one after the other; an exception ends the loop
RECURSIVE RelayTargets(_, _, _, _, _, _, _, _)
RelayTargets(w, event, platform, display_name, avatar_url, targets, plan, i) ==
  IF i > Len(targets) THEN w
  ELSE Only({ IF w1.raised THEN w1
              ELSE RelayTargets(w1, event, platform, display_name, avatar_url,
                                targets, plan, i + 1) :
              w1 \in { RelayOne(w, event, platform, display_name, avatar_url,
                                targets[i], PlanAt(plan, i)) } })

\* mutant: the cross-relay loop without `if portal_id == room_id: continue`
PortalTargets_no_skip(c, room_id) == <<c.hub_room_id>> \o PortalIds(c)

\* _relay_from_portal: the hub, then every portal but the source
PortalTargets(c, room_id) ==
  <<c.hub_room_id>> \o SelectSeq(PortalIds(c), LAMBDA p : p # room_id)

\* mutant: the hub fan-out that also sends into the hub
HubTargets_with_hub(c) == PortalIds(c) \o <<c.hub_room_id>>

\* _relay_from_hub: every portal
HubTargets(c) == PortalIds(c)

\* mutant: the portal fan-out with the platform read off the sender
_relay_from_portal_sender_label(w, c, event, profile, plan) ==
  Only({ RelayTargets(p.w, event, platform, p.display_name, p.avatar_url,
                      targets, plan, 1) :
         p \in { _get_sender_profile(w, event.sender, profile) },
         platform \in { Lower(platform_label(event.sender)) },
         targets \in { PortalTargets(c, event.room) } })

_relay_from_portal(w, c, event, profile, plan) ==
  Only({ RelayTargets(p.w, event, platform, p.display_name, p.avatar_url,
                      targets, plan, 1) :
         p \in { _get_sender_profile(w, event.sender, profile) },
         platform \in { Lower(PortalLabel(c, event.room)) },
         targets \in { PortalTargets(c, event.room) } })

_relay_from_hub(w, c, event, profile, plan) ==
  Only({ RelayTargets(p.w, event, platform, p.display_name, p.avatar_url,
                      targets, plan, 1) :
         p \in { _get_sender_profile(w, event.sender, profile) },
         platform \in { Lower(platform_label(event.sender)) },
         targets \in { HubTargets(c) } })

\* mutant: handle_message that takes a room it does not know for the hub
handle_message_any_room(w, c, event, profile, plan) ==
  IF InPortals(c, event.room)
  THEN IF should_ignore_in_portal(event.sender, event.body, c.bot_mxid)
       THEN w
       ELSE _relay_from_portal(w, c, event, profile, plan)
  ELSE IF TRUE
       THEN IF should_ignore_in_hub(event.sender, event.body, c.bot_mxid)
            THEN w
            ELSE _relay_from_hub(w, c, event, profile, plan)
       ELSE w

handle_message(w, c, event, profile, plan) ==
  IF InPortals(c, event.room)
  THEN IF should_ignore_in_portal(event.sender, event.body, c.bot_mxid)
       THEN w
       ELSE _relay_from_portal(w, c, event, profile, plan)
  ELSE IF event.room = c.hub_room_id
       THEN IF should_ignore_in_hub(event.sender, event.body, c.bot_mxid)
            THEN w
            ELSE _relay_from_hub(w, c, event, profile, plan)
       ELSE w

\* mutant: one target of handle_reaction without the try around get_intent
\* and react
ReactVia_no_catch(g, mxid, event, target_room, mapped_event, fault) ==
  LET wr == Api(g.w, Call("react", mxid, target_room, NoText, NoAvatar,
                          NoText, mapped_event, event.key, TRUE),
                fault = "send")
  IN IF ~g.ok THEN [g.w EXCEPT !.raised = TRUE]
     ELSE IF fault = "send" THEN [wr EXCEPT !.raised = TRUE]
     ELSE [wr EXCEPT
             !.sent = Append(@, Event("reaction", wr.next, target_room, mxid,
                                      NoText, mapped_event, event.key,
                                      wr.root)),
             !.next = @ + 1]

\* handle_reaction after `intent = await get_intent(...)` for one target
ReactVia(g, mxid, event, target_room, mapped_event, fault) ==
  LET wr == Api(g.w, Call("react", mxid, target_room, NoText, NoAvatar,
                          NoText, mapped_event, event.key, TRUE),
                fault = "send")
  IN IF ~g.ok THEN g.w
     ELSE IF fault = "send" THEN wr
     ELSE [wr EXCEPT
             !.sent = Append(@, Event("reaction", wr.next, target_room, mxid,
                                      NoText, mapped_event, event.key,
                                      wr.root)),
             !.next = @ + 1]

\* mutant: the reaction addressed to the id the reacting room knows
ReactOne_source_id(w, event, platform, display_name, avatar_url, target_room, fault) ==
  LET wl == Api(w, Call("lookup", NoText, target_room, NoText, NoAvatar,
                        NoText, event.rel, NoKey, TRUE),
                fault = "lookup")
      mapped_event == IF lookup(w.members, event.rel, target_room) = None
                      THEN None ELSE event.rel
  IN IF fault = "lookup" THEN [wl EXCEPT !.raised = TRUE]
     ELSE IF mapped_event = None THEN wl
     ELSE Only({ ReactVia(g, mxid, event, target_room, mapped_event, fault) :
                 g \in { get_intent(wl, platform, event.sender, display_name,
                                    avatar_url, target_room, FALSE, fault) },
                 mxid \in { mxid_for(platform, event.sender) } })

\* mutant: one target of handle_reaction without `if not mapped_event: continue`
ReactOne_no_skip(w, event, platform, display_name, avatar_url, target_room, fault) ==
  LET wl == Api(w, Call("lookup", NoText, target_room, NoText, NoAvatar,
                        NoText, event.rel, NoKey, TRUE),
                fault = "lookup")
      mapped_event == lookup(w.members, event.rel, target_room)
  IN IF fault = "lookup" THEN [wl EXCEPT !.raised = TRUE]
     ELSE IF FALSE THEN wl
     ELSE Only({ ReactVia(g, mxid, event, target_room, mapped_event, fault) :
                 g \in { get_intent(wl, platform, event.sender, display_name,
                                    avatar_url, target_room, FALSE, fault) },
                 mxid \in { mxid_for(platform, event.sender) } })

\* one target of handle_reaction: the lookup is outside the try
ReactOne(w, event, platform, display_name, avatar_url, target_room, fault) ==
  LET wl == Api(w, Call("lookup", NoText, target_room, NoText, NoAvatar,
                        NoText, event.rel, NoKey, TRUE),
                fault = "lookup")
      mapped_event == lookup(w.members, event.rel, target_room)
  IN IF fault = "lookup" THEN [wl EXCEPT !.raised = TRUE]
     ELSE IF mapped_event = None THEN wl
     ELSE Only({ ReactVia(g, mxid, event, target_room, mapped_event, fault) :
                 g \in { get_intent(wl, platform, event.sender, display_name,
                                    avatar_url, target_room, FALSE, fault) },
                 mxid \in { mxid_for(platform, event.sender) } })

RECURSIVE ReactTargets(_, _, _, _, _, _, _, _)
ReactTargets(w, event, platform, display_name, avatar_url, targets, plan, i) ==
  IF i > Len(targets) THEN w
  ELSE Only({ IF w1.raised THEN w1
              ELSE ReactTargets(w1, event, platform, display_name, avatar_url,
                                targets, plan, i + 1) :
              w1 \in { ReactOne(w, event, platform, display_name, avatar_url,
                                targets[i], PlanAt(plan, i)) } })

\* the target rooms of a reaction from room_id
ReactionTargets(c, room_id) ==
  IF InPortals(c, room_id)
  THEN <<c.hub_room_id>> \o SelectSeq(PortalIds(c), LAMBDA q : q # room_id)
  ELSE PortalIds(c)

\* mutant: handle_reaction with the hub's filter in every room
handle_reaction_hub_filter(w, c, event, profile, plan) ==
  IF IF InPortals(c, event.room)
     THEN should_ignore_in_hub(event.sender, NoText, c.bot_mxid)
     ELSE IF event.room = c.hub_room_id
          THEN should_ignore_in_hub(event.sender, NoText, c.bot_mxid)
          ELSE TRUE
  THEN w
  ELSE Only({ ReactTargets(p.w, event, platform, p.display_name,
                           p.avatar_url, targets, plan, 1) :
              p \in { _get_sender_profile(w, event.sender, profile) },
              platform \in { IF InPortals(c, event.room)
                             THEN Lower(PortalLabel(c, event.room))
                             ELSE Lower(platform_label(event.sender)) },
              targets \in { ReactionTargets(c, event.room) } })

handle_reaction(w, c, event, profile, plan) ==
  IF IF InPortals(c, event.room)
     THEN should_ignore_in_portal(event.sender, NoText, c.bot_mxid)
     ELSE IF event.room = c.hub_room_id
          THEN should_ignore_in_hub(event.sender, NoText, c.bot_mxid)
          ELSE TRUE
  THEN w
  ELSE Only({ ReactTargets(p.w, event, platform, p.display_name,
                           p.avatar_url, targets, plan, 1) :
              p \in { _get_sender_profile(w, event.sender, profile) },
              platform \in { IF InPortals(c, event.room)
                             THEN Lower(PortalLabel(c, event.room))
                             ELSE Lower(platform_label(event.sender)) },
              targets \in { ReactionTargets(c, event.room) } })

-----------------------------------------------------------------------------
(* The relay running: events arrive from outside in the configured rooms,  *)
(* the homeserver delivers every event a puppet sent back to the relay,    *)
(* and handle_message / handle_reaction run on each of them.               *)

MaxPortals == 3
MaxPosts == 2
MaxFaultyPosts == 1

\* RELAY_PORTAL_ROOMS in the order given
AllPortals ==
  << [room |-> "!wa",  label |-> <<"WhatsApp">>],
     [room |-> "!sig", label |-> <<"Signal">>],
     [room |-> "!tg",  label |-> <<"Telegram">>],
     [room |-> "!dc",  label |-> <<"Discord">>] >>

\* a configuration with the first n portals; the hub is not a portal
Config(n) ==
  [portal_rooms |-> SubSeq(AllPortals, 1, n),
   hub_room_id  |-> "!hub",
   bot_mxid     |-> Mxid(<<"relay", "-", "bot">>)]

Configs == { Config(n) : n \in 1..MaxPortals }

\* RELAY_HUB_ROOM_ID=!hub with RELAY_PORTAL_ROOMS=!hub=Signal,!wa=WhatsApp:
\* from_env compares neither variable with the other
HubPortalConfig ==
  [portal_rooms |-> << [room |-> "!hub", label |-> <<"Signal">>],
                       [room |-> "!wa",  label |-> <<"WhatsApp">>] >>,
   hub_room_id  |-> "!hub",
   bot_mxid     |-> Mxid(<<"relay", "-", "bot">>)]

\* configurations from_env returns
AcceptedConfigs == Configs \cup {HubPortalConfig}

Range(s) == { s[i] : i \in 1..Len(s) }

\* the rooms events arrive in: the portals, the hub and an unrelated room
Rooms == Range(PortalIds(cfg)) \cup {cfg.hub_room_id, "!other"}

\* a Matrix user, a Signal bridge puppet, the Signal bridge bot, the relay
Senders ==
  { Mxid(<<"u">>), Mxid(<<"_", "signal", "_", "u">>),
    Mxid(<<"signal", "bot">>), Mxid(<<"relay", "-", "bot">>) }

\* "hi" | "Al: hi" | "**a(b):**"
MsgBodies ==
  { <<"l", "l">>, <<"U", "l", ":", " ", "l", "l">>,
    <<"*", "*", "l", "(", "l", ")", ":", "*", "*">> }

Keys == { "+1" }

Profile(raises, displayname, avatar_url) ==
  [raises |-> raises, displayname |-> displayname, avatar_url |-> avatar_url]

\* what get_profile answers: an error, an empty name, a name, a name and an
\* avatar
Profiles ==
  { Profile(TRUE, NoText, NoAvatar), Profile(FALSE, NoText, <<"mxc">>),
    Profile(FALSE, <<"Al">>, NoAvatar), Profile(FALSE, <<"Al">>, <<"mxc">>) }

NumFaults(plan) == Cardinality({ i \in DOMAIN plan : plan[i] # "none" })

\* the calls of one target's relay that are made to raise: inside get_intent
\* the registration, the membership event and ensure_joined; the EventMap
\* lookup; the send; the EventMap store
FaultPoints ==
  { "none", "ensure_registered", "send_state_event", "ensure_joined",
    "lookup", "send", "store" }

\* one fault point per target
Plans == [1..Len(cfg.portal_rooms) -> FaultPoints]

FaultSenders == { Mxid(<<"u">>), Mxid(<<"_", "signal", "_", "u">>) }

FaultProfiles == { Profile(FALSE, <<"Al">>, NoAvatar) }

\* the get_intent calls that may be in flight at once
MaxTasks == 2

Tasks == 1..MaxTasks

NotAcquiring ==
  [pc |-> "idle", display_name |-> NoText, avatar_url |-> NoAvatar,
   room_id |-> NoRoom, sync_member_state |-> FALSE]

GiIdle == acquiring = [t \in Tasks |-> NotAcquiring]

\* cleanup_loop has been created and sleeps for the first time
LoopStarted == [pc |-> "sleep", failed |-> FALSE]

LoopIdle == loop = LoopStarted

\* mxid_for has not been called
NotDerived ==
  [platform |-> << >>, sender |-> << >>, other_platform |-> << >>,
   other_sender |-> << >>, mxid |-> << >>, other_mxid |-> << >>,
   done |-> FALSE]

MxIdle == derived = NotDerived

\* PuppetManager has not been called directly
NoAcquire ==
  [acquires |-> 0, sync_member_state |-> FALSE, issued |-> {}, failed |-> {}]

NoLast ==
  [event  |-> Event("none", None, NoRoom, NoText, NoText, None, NoKey, None),
   calls  |-> << >>,
   raised |-> FALSE]

EngIdle ==
  /\ cfg = Config(1)
  /\ intents = {}
  /\ display_names = {}
  /\ avatar_urls = {}
  /\ member_profiles = {}
  /\ timeline = {}
  /\ inbox = << >>
  /\ last = NoLast
  /\ faulty = 0
  /\ pm = NoAcquire
  /\ GiIdle
  /\ MxIdle
  /\ LoopIdle

\* events that came from outside
Posts == Cardinality({ e \in timeline : e.root = e.id })

\* the ids of the messages a user of room_id can refer to
MessagesIn(room_id) ==
  { e.id : e \in { x \in timeline : x.room = room_id /\ x.kind = "message" } }

World(next, root) ==
  [intents |-> intents, display_names |-> display_names,
   avatar_urls |-> avatar_urls, member_profiles |-> member_profiles,
   groups |-> groups, members |-> members, now |-> now,
   calls |-> << >>, sent |-> << >>, next |-> next, root |-> root,
   raised |-> FALSE, fired |-> 0]

\* the handler is done: its effects and the record of what it did; pending
\* are the events still to be delivered
Commit(w, event, plan, pending) ==
  /\ w.fired = NumFaults(plan)
  /\ intents' = w.intents
  /\ display_names' = w.display_names
  /\ avatar_urls' = w.avatar_urls
  /\ member_profiles' = w.member_profiles
  /\ groups' = w.groups
  /\ members' = w.members
  /\ timeline' = timeline \cup {event} \cup Range(w.sent)
  /\ inbox' = pending \o w.sent
  /\ last' = [event |-> event, calls |-> w.calls, raised |-> w.raised]
  /\ faulty' = IF NumFaults(plan) > 0 THEN faulty + 1 ELSE faulty
  /\ UNCHANGED <<cfg, now, emLast, emPrev, pm, acquiring, derived, loop>>
  /\ UNCHANGED <<storing, cleaning>>
  /\ UNCHANGED clsVars

\* the bounds leave room for an event from outside
CanPost ==
  /\ Posts < MaxPosts
  /\ faulty < MaxFaultyPosts

\* handle_message runs on a message that arrives from outside in room_id
MessageArrives(room_id, sender, body, reply_to, profile, plan) ==
  \E id \in {Cardinality(timeline) + 1} :
    \E event \in {Event("message", id, room_id, sender, body, reply_to,
                       NoKey, id)} :
      \E w \in {handle_message(World(id + 1, id), cfg, event, profile,
                                plan)} :
        Commit(w, event, plan, inbox)

\* handle_reaction runs on a reaction that arrives from outside in room_id
ReactionArrives(room_id, sender, reacted_to, key, profile, plan) ==
  \E id \in {Cardinality(timeline) + 1} :
    \E event \in {Event("reaction", id, room_id, sender, NoText,
                       reacted_to, key, id)} :
      \E w \in {handle_reaction(World(id + 1, id), cfg, event, profile,
                                 plan)} :
        Commit(w, event, plan, inbox)

\* a message from outside arrives in room_id and handle_message runs
OnMessage(room_id, sender, body, reply_to, profile, plan) ==
  /\ CanPost
  /\ MessageArrives(room_id, sender, body, reply_to, profile, plan)

\* a reaction from outside arrives in room_id and handle_reaction runs
OnReaction(room_id, sender, reacted_to, key, profile, plan) ==
  /\ CanPost
  /\ ReactionArrives(room_id, sender, reacted_to, key, profile, plan)

\* the homeserver delivers the oldest event a puppet sent
Deliver(profile) ==
  /\ inbox # << >>
  /\ \E event \in {Head(inbox)} :
       \E w0 \in {World(Cardinality(timeline) + 1, event.root)} :
         \E w \in {IF event.kind = "message"
                    THEN handle_message(w0, cfg, event, profile, NoFaults)
                    ELSE handle_reaction(w0, cfg, event, profile, NoFaults)} :
           Commit(w, event, NoFaults, Tail(inbox))

\* the relay started with any configuration from_env returns
InitAccepted ==
  /\ cfg \in AcceptedConfigs
  /\ intents = {}
  /\ display_names = {}
  /\ avatar_urls = {}
  /\ member_profiles = {}
  /\ timeline = {}
  /\ inbox = << >>
  /\ last = NoLast
  /\ faulty = 0
  /\ pm = NoAcquire
  /\ GiIdle
  /\ MxIdle
  /\ LoopIdle

InitRelay ==
  /\ cfg \in Configs
  /\ intents = {}
  /\ display_names = {}
  /\ avatar_urls = {}
  /\ member_profiles = {}
  /\ timeline = {}
  /\ inbox = << >>
  /\ last = NoLast
  /\ faulty = 0
  /\ pm = NoAcquire
  /\ GiIdle
  /\ MxIdle
  /\ LoopIdle

Init == ClsIdle /\ EmIdle /\ CcIdle /\ InitRelay

PostMessage ==
  /\ CanPost
  /\ \E room_id \in Rooms, sender \in Senders, body \in MsgBodies,
        profile \in Profiles :
       \E reply_to \in {None} \cup MessagesIn(room_id) :
         OnMessage(room_id, sender, body, reply_to, profile, NoFaults)

PostReaction ==
  /\ CanPost
  /\ \E room_id \in Rooms, sender \in Senders, key \in Keys,
        profile \in Profiles :
       \E reacted_to \in MessagesIn(room_id) :
         OnReaction(room_id, sender, reacted_to, key, profile, NoFaults)

DeliverEcho == \E profile \in Profiles : Deliver(profile)

Next == PostMessage \/ PostReaction \/ DeliverEcho

Spec == Init /\ [][Next]_vars

InitAny == ClsIdle /\ EmIdle /\ CcIdle /\ InitAccepted

SpecAccepted == InitAny /\ [][Next]_vars

PostMessageFault ==
  /\ CanPost
  /\ \E room_id \in Rooms \ {"!other"}, sender \in FaultSenders,
        profile \in FaultProfiles, plan \in Plans :
       \E reply_to \in {None} \cup MessagesIn(room_id) :
         OnMessage(room_id, sender, <<"l", "l">>, reply_to, profile, plan)

PostReactionFault ==
  /\ CanPost
  /\ \E room_id \in Rooms \ {"!other"}, sender \in FaultSenders,
        key \in Keys, profile \in FaultProfiles, plan \in Plans :
       \E reacted_to \in MessagesIn(room_id) :
         OnReaction(room_id, sender, reacted_to, key, profile, plan)

DeliverEchoFault == \E profile \in FaultProfiles : Deliver(profile)

NextFault == PostMessageFault \/ PostReactionFault \/ DeliverEchoFault

SpecFault == Init /\ [][NextFault]_vars

\* the relay where sends are lost and reactions follow: a message may fail
\* to reach some of its targets, and what arrives next meets the event map
\* that this left
LossPlans == [1..Len(cfg.portal_rooms) -> {"none", "send"}]

ReactPlans ==
  [1..Len(cfg.portal_rooms) ->
     {"none", "send_state_event", "ensure_joined", "send"}]

PostMessageLossy ==
  /\ Posts < MaxPosts
  /\ \E room_id \in Rooms \ {"!other"}, sender \in FaultSenders,
        profile \in FaultProfiles, plan \in LossPlans :
       MessageArrives(room_id, sender, <<"l", "l">>, None, profile, plan)

PostReactionLossy ==
  /\ Posts < MaxPosts
  /\ \E room_id \in Rooms \ {"!other"}, sender \in FaultSenders,
        key \in Keys, profile \in FaultProfiles, plan \in ReactPlans :
       \E reacted_to \in MessagesIn(room_id) :
         ReactionArrives(room_id, sender, reacted_to, key, profile, plan)

NextLossy == PostMessageLossy \/ PostReactionLossy \/ DeliverEchoFault

SpecLossy == Init /\ [][NextLossy]_vars

-----------------------------------------------------------------------------
(* PuppetManager.mxid_for on its own: two managers of one domain, each     *)
(* given a platform and a sender                                           *)

MxPlatforms ==
  { << >>, <<"signal">>, <<"whatsapp">>, <<"Signal">>, <<"signal", "_", "h0">>,
    <<"_">> }

MxSenders ==
  { << >>, Mxid(<<"u">>), Mxid(<<"_", "signal", "_", "u">>), <<"h0">> }

InitMx ==
  /\ ClsIdle /\ EmIdle /\ CcIdle
  /\ cfg = Config(1)
  /\ intents = {} /\ display_names = {} /\ avatar_urls = {}
  /\ member_profiles = {}
  /\ timeline = {} /\ inbox = << >> /\ last = NoLast /\ faulty = 0
  /\ pm = NoAcquire
  /\ GiIdle
  /\ LoopIdle
  /\ \E platform \in MxPlatforms, sender \in MxSenders, other_platform \in MxPlatforms, other_sender \in MxSenders : derived = [NotDerived EXCEPT !.platform = platform, !.sender = sender, !.other_platform = other_platform, !.other_sender = other_sender]

\* each manager derives the identifier for its arguments
Derive ==
  /\ ~derived.done
  /\ derived' = [derived EXCEPT
                   !.mxid = mxid_for(derived.platform, derived.sender),
                   !.other_mxid = mxid_for(derived.other_platform,
                                           derived.other_sender),
                   !.done = TRUE]
  /\ UNCHANGED <<cfg, intents, display_names, avatar_urls, member_profiles>>
  /\ UNCHANGED <<timeline, inbox, last, faulty, pm, acquiring, loop>>
  /\ UNCHANGED emVars
  /\ UNCHANGED <<storing, cleaning>>
  /\ UNCHANGED clsVars

NextMx == Derive

SpecMx == InitMx /\ [][NextMx]_vars

-----------------------------------------------------------------------------
(* cleanup_loop of __main__: `while True: sleep; try: cleanup(30) except    *)
(* Exception: log`, created as a task and cancelled at shutdown, while      *)
(* handlers store and time passes                                          *)

CLEANUP_MAX_AGE_DAYS == 30

\* `await asyncio.sleep(_CLEANUP_INTERVAL)` returns and cleanup is called
LoopWake ==
  /\ loop.pc = "sleep"
  /\ loop' = [loop EXCEPT !.pc = "cleanup"]
  /\ UNCHANGED <<cfg, intents, display_names, avatar_urls, member_profiles>>
  /\ UNCHANGED <<timeline, inbox, last, faulty, pm, acquiring, derived>>
  /\ UNCHANGED emVars
  /\ UNCHANGED <<storing, cleaning>>
  /\ UNCHANGED clsVars

\* cleanup returns; the loop sleeps again
LoopCleanupReturns ==
  /\ loop.pc = "cleanup"
  /\ \E c \in { cleanup(Db(groups, members), CLEANUP_MAX_AGE_DAYS, now) } :
       /\ groups' = c.db.groups
       /\ members' = c.db.members
  /\ loop' = [pc |-> "sleep", failed |-> FALSE]
  /\ UNCHANGED <<now, emLast, emPrev>>
  /\ UNCHANGED <<cfg, intents, display_names, avatar_urls, member_profiles>>
  /\ UNCHANGED <<timeline, inbox, last, faulty, pm, acquiring, derived>>
  /\ UNCHANGED <<storing, cleaning>>
  /\ UNCHANGED clsVars

\* mutant: cleanup_loop without the try, so that an exception ends the task
LoopCleanupRaises_uncaught(partly) ==
  /\ loop.pc = "cleanup"
  /\ \E c \in { cleanup(Db(groups, members), CLEANUP_MAX_AGE_DAYS, now) } :
       members' = IF partly THEN c.db.members ELSE members
  /\ loop' = [pc |-> "ended", failed |-> TRUE]
  /\ UNCHANGED <<groups, now, emLast, emPrev>>
  /\ UNCHANGED <<cfg, intents, display_names, avatar_urls, member_profiles>>
  /\ UNCHANGED <<timeline, inbox, last, faulty, pm, acquiring, derived>>
  /\ UNCHANGED <<storing, cleaning>>
  /\ UNCHANGED clsVars

\* cleanup raises an Exception, before its first DELETE or (partly) after the
\* commit that follows it; `except Exception` logs it and the loop sleeps
\* again
LoopCleanupRaises(partly) ==
  /\ loop.pc = "cleanup"
  /\ \E c \in { cleanup(Db(groups, members), CLEANUP_MAX_AGE_DAYS, now) } :
       members' = IF partly THEN c.db.members ELSE members
  /\ loop' = [pc |-> "sleep", failed |-> TRUE]
  /\ UNCHANGED <<groups, now, emLast, emPrev>>
  /\ UNCHANGED <<cfg, intents, display_names, avatar_urls, member_profiles>>
  /\ UNCHANGED <<timeline, inbox, last, faulty, pm, acquiring, derived>>
  /\ UNCHANGED <<storing, cleaning>>
  /\ UNCHANGED clsVars

\* shutdown: `cleanup_task.cancel()` ends the task where it is suspended
LoopCancel ==
  /\ loop.pc \in {"sleep", "cleanup"}
  /\ loop' = [loop EXCEPT !.pc = "cancelled"]
  /\ UNCHANGED <<cfg, intents, display_names, avatar_urls, member_profiles>>
  /\ UNCHANGED <<timeline, inbox, last, faulty, pm, acquiring, derived>>
  /\ UNCHANGED emVars
  /\ UNCHANGED <<storing, cleaning>>
  /\ UNCHANGED clsVars

NextLoop ==
  \/ LoopWake
  \/ LoopCleanupReturns
  \/ \E partly \in BOOLEAN : LoopCleanupRaises(partly)
  \/ LoopCancel
  \/ \E a \in EmEvents, b \in EmEvents : EmStore(a, b)
  \/ EmTick

-----------------------------------------------------------------------------
(* The specifications of the classifier and of the event map               *)

InitEm == ClsIdle /\ EmIdle /\ CcIdle /\ EngIdle

SpecEm == InitEm /\ [][NextEm]_vars

InitClsAll == InitCls /\ EmIdle /\ CcIdle /\ EngIdle

NextCls == Classify

SpecCls == InitClsAll /\ [][NextCls]_vars

SpecCc == InitEm /\ [][NextCc]_vars

SpecLoop == InitEm /\ [][NextLoop]_vars

\* the event loop runs a task that is ready: the timer of the sleep fires,
\* and a cleanup that was called returns or raises
SpecLoopLive ==
  /\ SpecLoop
  /\ WF_vars(LoopWake)
  /\ WF_vars(LoopCleanupReturns \/ \E partly \in BOOLEAN : LoopCleanupRaises(partly))

-----------------------------------------------------------------------------
(* PuppetManager.get_intent called directly, with any platform, sender,    *)
(* profile, room and sync_member_state, every call going through.          *)

MaxAcquires == 3

PmPlatforms == { <<"whatsapp">>, <<"signal">> }

PmNames == { <<"Al">>, <<"Bo">> }

PmAvatars == { NoAvatar, <<"mxc">> }

PmRooms == { "!hub", "!wa", "!sig" }

\* how often key is in the dict of counts
Issued(counts, key) == IF DHas(counts, key) THEN DGet(counts, key) ELSE 0

\* counts after the calls from position i on: a get_intent, a registration
\* and a membership event count for their puppet and room
RECURSIVE Tally(_, _, _)
Tally(counts, calls, i) ==
  IF i > Len(calls) THEN counts
  ELSE IF calls[i].op \in {"get_intent", "ensure_registered", "send_state_event"}
       THEN Only({ Tally(DPut(counts, key, Issued(counts, key) + 1), calls,
                         i + 1) :
                   key \in { <<calls[i].op, calls[i].mxid, calls[i].room>> } })
       ELSE Tally(counts, calls, i + 1)

\* counts with one more acquire that asked for resync
TallySync(counts, mxid, room_id, sync_member_state) ==
  IF sync_member_state
  THEN DPut(counts, <<"resync", mxid, room_id>>,
            Issued(counts, <<"resync", mxid, room_id>>) + 1)
  ELSE counts

\* one call of get_intent; fault names the call of it that raises, if any.
\* pm.failed holds the (puppet, room) pairs whose latest get_intent raised.
AcquireWith(platform, sender, display_name, avatar_url, room_id, sync_member_state, fault) ==
  /\ \E g \in { get_intent(World(1, 1), platform, sender, display_name,
                            avatar_url, room_id, sync_member_state, fault) } :
       /\ intents' = g.w.intents
       /\ display_names' = g.w.display_names
       /\ avatar_urls' = g.w.avatar_urls
       /\ member_profiles' = g.w.member_profiles
       /\ last' = [NoLast EXCEPT !.calls = g.w.calls]
       /\ pm' = [acquires |-> pm.acquires + 1,
                 sync_member_state |-> sync_member_state,
                 issued |-> TallySync(Tally(pm.issued, g.w.calls, 1),
                                      mxid_for(platform, sender), room_id,
                                      sync_member_state),
                 failed |-> IF g.ok
                            THEN pm.failed \ {<<mxid_for(platform, sender), room_id>>}
                            ELSE pm.failed \cup {<<mxid_for(platform, sender), room_id>>}]
  /\ UNCHANGED <<cfg, timeline, inbox, faulty, acquiring, derived, loop>>
  /\ UNCHANGED emVars
  /\ UNCHANGED <<storing, cleaning>>
  /\ UNCHANGED clsVars

\* get_intent with every call going through
Acquire(platform, sender, display_name, avatar_url, room_id, sync_member_state) ==
  /\ pm.acquires < MaxAcquires
  /\ AcquireWith(platform, sender, display_name, avatar_url, room_id,
                 sync_member_state, "none")

\* get_intent whose membership event, if it sends one, is refused
AcquireRefused(platform, sender, display_name, avatar_url, room_id, sync_member_state) ==
  /\ pm.acquires < MaxAcquires
  /\ AcquireWith(platform, sender, display_name, avatar_url, room_id,
                 sync_member_state, "send_state_event")

NextPm ==
  \E platform \in PmPlatforms, display_name \in PmNames, avatar_url \in PmAvatars, room_id \in PmRooms, sync_member_state \in BOOLEAN :
    Acquire(platform, Mxid(<<"u">>), display_name, avatar_url, room_id, sync_member_state)

SpecPm == InitEm /\ [][NextPm]_vars

NextPmRefused ==
  \/ \E platform \in PmPlatforms, display_name \in PmNames, avatar_url \in PmAvatars, room_id \in PmRooms, sync_member_state \in BOOLEAN :
       Acquire(platform, Mxid(<<"u">>), display_name, avatar_url, room_id, sync_member_state)
  \/ \E platform \in PmPlatforms, display_name \in PmNames, avatar_url \in PmAvatars, room_id \in PmRooms, sync_member_state \in BOOLEAN :
       AcquireRefused(platform, Mxid(<<"u">>), display_name, avatar_url, room_id, sync_member_state)

SpecPmRefused == InitEm /\ [][NextPmRefused]_vars

-----------------------------------------------------------------------------
(* PuppetManager.get_intent as coroutines: the handlers of two events run  *)
(* as tasks of one event loop and call get_intent for the same puppet; a   *)
(* task gives way at each await.  A task's pc names the await it is        *)
(* suspended at; the call awaited has been issued.                         *)

GiRooms == { "!hub", "!wa" }

\* the one puppet the tasks ask for
GiMxid == mxid_for(<<"whatsapp">>, Mxid(<<"u">>))

\* the call awaited at pc
AwaitedCall(pc, a) ==
  IF pc = "ensure_registered"
  THEN Call("ensure_registered", GiMxid, NoRoom, NoText, NoAvatar, NoText,
            None, NoKey, TRUE)
  ELSE IF pc \in {"set_displayname_new", "set_displayname"}
  THEN Call("set_displayname", GiMxid, NoRoom, a.display_name, NoAvatar,
            NoText, None, NoKey, TRUE)
  ELSE IF pc \in {"set_avatar_url_new", "set_avatar_url"}
  THEN Call("set_avatar_url", GiMxid, NoRoom, NoText, a.avatar_url, NoText,
            None, NoKey, TRUE)
  ELSE IF pc \in {"send_member_first", "send_member_resync"}
  THEN Call("send_state_event", GiMxid, a.room_id, a.display_name,
            a.avatar_url, NoText, None, NoKey, TRUE)
  ELSE Call("ensure_joined", GiMxid, a.room_id, NoText, NoAvatar, NoText,
            None, NoKey, TRUE)

\* lines 126-141: the await the room part stops at, as _member_profiles is now
MemberAwait(a) ==
  IF ~DHas(member_profiles, <<GiMxid, a.room_id>>)
  THEN "send_member_first"
  ELSE IF /\ DGet(member_profiles, <<GiMxid, a.room_id>>)
               # <<a.display_name, a.avatar_url>>
          /\ a.sync_member_state
       THEN "send_member_resync"
       ELSE "ensure_joined"

\* lines 113-115: the avatar of a known puppet, as _avatar_urls is now
AvatarAwait(a) ==
  IF (IF DHas(avatar_urls, GiMxid) THEN DGet(avatar_urls, GiMxid) ELSE NoAvatar)
       # a.avatar_url
  THEN "set_avatar_url"
  ELSE MemberAwait(a)

\* lines 99-112: the first await of a call, as the caches are now
FirstAwait(a) ==
  IF GiMxid \notin intents THEN "ensure_registered"
  ELSE IF \/ ~DHas(display_names, GiMxid)
          \/ DGet(display_names, GiMxid) # a.display_name
       THEN "set_displayname"
       ELSE AvatarAwait(a)

\* task t runs on to the await pc and issues its call
Suspend(t, a, pc) ==
  /\ acquiring' = [acquiring EXCEPT ![t] = [a EXCEPT !.pc = pc]]
  /\ pm' = [pm EXCEPT !.issued = Tally(@, <<AwaitedCall(pc, a)>>, 1)]

\* task t returns the intent
Return(t) ==
  /\ acquiring' = [acquiring EXCEPT ![t] = NotAcquiring]
  /\ UNCHANGED pm

\* get_intent is called in task t
GiCall(t, display_name, avatar_url, room_id, sync_member_state) ==
  /\ acquiring[t].pc = "idle"
  /\ pm.acquires < MaxAcquires
  /\ \E a \in { [NotAcquiring EXCEPT !.display_name = display_name,
                                    !.avatar_url = avatar_url,
                                    !.room_id = room_id,
                                    !.sync_member_state = sync_member_state] } :
       \E pc \in { FirstAwait(a) } :
         /\ acquiring' = [acquiring EXCEPT ![t] = [a EXCEPT !.pc = pc]]
         /\ pm' = [acquires |-> pm.acquires + 1,
                   sync_member_state |-> sync_member_state,
                   issued |-> TallySync(
                                Tally(pm.issued,
                                      <<Call("get_intent", GiMxid, room_id,
                                             display_name, avatar_url, NoText,
                                             None, NoKey, TRUE),
                                        AwaitedCall(pc, a)>>, 1),
                                GiMxid, room_id, sync_member_state),
                   failed |-> pm.failed]
  /\ UNCHANGED <<cfg, intents, display_names, avatar_urls, member_profiles>>
  /\ UNCHANGED <<timeline, inbox, last, faulty, derived, loop>>
  /\ UNCHANGED emVars
  /\ UNCHANGED <<storing, cleaning>>
  /\ UNCHANGED clsVars

\* line 101 returns; line 102 is awaited
GiRegistered(t) ==
  /\ acquiring[t].pc = "ensure_registered"
  /\ Suspend(t, acquiring[t], "set_displayname_new")
  /\ UNCHANGED <<cfg, intents, display_names, avatar_urls, member_profiles>>
  /\ UNCHANGED <<timeline, inbox, last, faulty, derived, loop>>
  /\ UNCHANGED emVars
  /\ UNCHANGED <<storing, cleaning>>
  /\ UNCHANGED clsVars

\* line 102 returns; lines 103-107
GiNamedNew(t) ==
  /\ acquiring[t].pc = "set_displayname_new"
  /\ intents' = intents \cup {GiMxid}
  /\ display_names' = DPut(display_names, GiMxid, acquiring[t].display_name)
  /\ IF acquiring[t].avatar_url # NoAvatar
     THEN /\ Suspend(t, acquiring[t], "set_avatar_url_new")
          /\ UNCHANGED avatar_urls
     ELSE /\ avatar_urls' = DPut(avatar_urls, GiMxid, acquiring[t].avatar_url)
          /\ Suspend(t, acquiring[t], MemberAwait(acquiring[t]))
  /\ UNCHANGED <<cfg, member_profiles>>
  /\ UNCHANGED <<timeline, inbox, last, faulty, derived, loop>>
  /\ UNCHANGED emVars
  /\ UNCHANGED <<storing, cleaning>>
  /\ UNCHANGED clsVars

\* line 106 returns; line 107
GiAvatarNew(t) ==
  /\ acquiring[t].pc = "set_avatar_url_new"
  /\ avatar_urls' = DPut(avatar_urls, GiMxid, acquiring[t].avatar_url)
  /\ Suspend(t, acquiring[t], MemberAwait(acquiring[t]))
  /\ UNCHANGED <<cfg, intents, display_names, member_profiles>>
  /\ UNCHANGED <<timeline, inbox, last, faulty, derived, loop>>
  /\ UNCHANGED emVars
  /\ UNCHANGED <<storing, cleaning>>
  /\ UNCHANGED clsVars

\* line 111 returns; lines 112-114
GiNamed(t) ==
  /\ acquiring[t].pc = "set_displayname"
  /\ display_names' = DPut(display_names, GiMxid, acquiring[t].display_name)
  /\ Suspend(t, acquiring[t], AvatarAwait(acquiring[t]))
  /\ UNCHANGED <<cfg, intents, avatar_urls, member_profiles>>
  /\ UNCHANGED <<timeline, inbox, last, faulty, derived, loop>>
  /\ UNCHANGED emVars
  /\ UNCHANGED <<storing, cleaning>>
  /\ UNCHANGED clsVars

\* line 114 returns; line 115
GiAvatar(t) ==
  /\ acquiring[t].pc = "set_avatar_url"
  /\ avatar_urls' = DPut(avatar_urls, GiMxid, acquiring[t].avatar_url)
  /\ Suspend(t, acquiring[t], MemberAwait(acquiring[t]))
  /\ UNCHANGED <<cfg, intents, display_names, member_profiles>>
  /\ UNCHANGED <<timeline, inbox, last, faulty, derived, loop>>
  /\ UNCHANGED emVars
  /\ UNCHANGED <<storing, cleaning>>
  /\ UNCHANGED clsVars

\* line 132 returns; line 133
GiJoined(t) ==
  /\ acquiring[t].pc = "send_member_first"
  /\ member_profiles' = DPut(member_profiles, <<GiMxid, acquiring[t].room_id>>,
                             <<acquiring[t].display_name,
                               acquiring[t].avatar_url>>)
  /\ Return(t)
  /\ UNCHANGED <<cfg, intents, display_names, avatar_urls>>
  /\ UNCHANGED <<timeline, inbox, last, faulty, derived, loop>>
  /\ UNCHANGED emVars
  /\ UNCHANGED <<storing, cleaning>>
  /\ UNCHANGED clsVars

\* line 136 returns; line 137
GiResynced(t) ==
  /\ acquiring[t].pc = "send_member_resync"
  /\ member_profiles' = DPut(member_profiles, <<GiMxid, acquiring[t].room_id>>,
                             <<acquiring[t].display_name,
                               acquiring[t].avatar_url>>)
  /\ Return(t)
  /\ UNCHANGED <<cfg, intents, display_names, avatar_urls>>
  /\ UNCHANGED <<timeline, inbox, last, faulty, derived, loop>>
  /\ UNCHANGED emVars
  /\ UNCHANGED <<storing, cleaning>>
  /\ UNCHANGED clsVars

\* line 141 returns
GiEnsured(t) ==
  /\ acquiring[t].pc = "ensure_joined"
  /\ Return(t)
  /\ UNCHANGED <<cfg, intents, display_names, avatar_urls, member_profiles>>
  /\ UNCHANGED <<timeline, inbox, last, faulty, derived, loop>>
  /\ UNCHANGED emVars
  /\ UNCHANGED <<storing, cleaning>>
  /\ UNCHANGED clsVars

NextGi ==
  \/ \E t \in Tasks, display_name \in PmNames, avatar_url \in PmAvatars, room_id \in GiRooms, sync_member_state \in BOOLEAN : GiCall(t, display_name, avatar_url, room_id, sync_member_state)
  \/ \E t \in Tasks : GiRegistered(t)
  \/ \E t \in Tasks : GiNamedNew(t)
  \/ \E t \in Tasks : GiAvatarNew(t)
  \/ \E t \in Tasks : GiNamed(t)
  \/ \E t \in Tasks : GiAvatar(t)
  \/ \E t \in Tasks : GiJoined(t)
  \/ \E t \in Tasks : GiResynced(t)
  \/ \E t \in Tasks : GiEnsured(t)

SpecGi == InitEm /\ [][NextGi]_vars

-----------------------------------------------------------------------------
(* Claims about the classifier (SpecCls)                                   *)

\* the local part of a well-formed "@local:domain" identifier
LocalOf(u) == SubSeq(u, 2, Len(u) - 2)

HasBridgePrefix(u) ==
  \E platform \in {"whatsapp", "discord", "telegram", "signal"} :
    StartsWith(LocalOf(u), <<"_", platform, "_">>)

IsAutomationAccount(u) ==
  \E platform \in {"whatsapp", "discord", "telegram", "signal"} :
    LocalOf(u) = <<platform, "bot">>

\* C3: a sender whose local part carries a bridge puppet prefix and is not a
\* bridge automation account, with a body that carries no attribution, is
\* relayed from a portal (should_ignore_in_portal false) and filtered in the
\* hub (should_ignore_in_hub true).
C3_BridgePuppetAsymmetry ==
  (/\ cOut.done
   /\ HasBridgePrefix(cSender)
   /\ ~IsAutomationAccount(cSender)
   /\ ~has_attribution(cBody))
  => (cOut.portal = FALSE /\ cOut.hub = TRUE)

C3_Witness ==
  /\ cOut.done
  /\ cSender = Mxid(<<"_", "signal", "_">>)
  /\ cBody = <<"l", "l">>
  /\ cOut.portal = FALSE
  /\ cOut.hub = TRUE

\* C5: the relay's own identifier, any relay-puppet-prefixed identifier and
\* any bridge automation account is ignored by both predicates, whatever
\* the body.
C5_AlwaysIgnored ==
  (/\ cOut.done
   /\ \/ cSender = cOwn
      \/ StartsWith(LocalOf(cSender), <<"_", "relay", "_">>)
      \/ IsAutomationAccount(cSender))
  => (cOut.portal = TRUE /\ cOut.hub = TRUE)

C5_Witness ==
  /\ cOut.done
  /\ cSender = Mxid(<<"_", "relay", "_">>)
  /\ cBody = <<"l", "l">>
  /\ cOut.portal = TRUE
  /\ cOut.hub = TRUE

-----------------------------------------------------------------------------
(* Claims about the event map (SpecEm)                                     *)

EmRoomIds == { EmRoomOf[e] : e \in EmEvents }

GroupOf(ms, e) == { r.g : r \in { x \in ms : x.ev = e } }

\* C7: after store(a, room1, b, room2), lookup(a, room2) = b and
\* lookup(b, room1) = a; an event id without a row, and a room in which the
\* event's group has no member, look up as not-found.
C7_RoundTrip ==
  /\ emLast.op = "store" =>
       /\ lookup(members, emLast.a, emLast.r2) = emLast.b
       /\ lookup(members, emLast.b, emLast.r1) = emLast.a
  /\ \A e \in EmEvents, room \in EmRoomIds :
       /\ GroupOf(members, e) = {} => lookup(members, e, room) = None
       /\ (/\ GroupOf(members, e) # {}
           /\ ~(\E r \in members : r.g \in GroupOf(members, e) /\ r.room = room))
          => lookup(members, e, room) = None

\* a store has just returned while another group holds a member of a room
\* this store's group has none in
C7_Witness ==
  /\ emLast.op = "store"
  /\ lookup(members, emLast.a, emLast.r2) = emLast.b
  /\ \E r \in members :
       /\ r.g \notin GroupOf(members, emLast.a)
       /\ lookup(members, emLast.a, r.room) = None

C9_GroupInvariant ==
  \A x \in members, y \in members :
    /\ (x.g = y.g /\ x.room = y.room) => x = y
    /\ x.ev = y.ev => x = y

\* two groups each hold a member of the same room, after a cleanup that
\* removed rows
C9_Witness ==
  /\ emLast.op = "cleanup"
  /\ emLast.ret > 0
  /\ \E x \in members, y \in members : x.g # y.g /\ x.room = y.room

\* the (room, event) pairs of group g
Pairs(ms, g) == { <<r.room, r.ev>> : r \in { x \in ms : x.g = g } }

\* C10 for one store(x, rx, y, ry) step that finds x in group g1 and y in
\* another group g2: one of the two groups remains and holds every pair of it
\* and every pair of the absorbed group whose room it had no member in (the
\* rooms rx and ry, which the store itself writes, aside); the absorbed
\* group is gone; preserved members resolve to one another.
MergePost(g1, g2, rx, ry) ==
  /\ Cardinality({g1, g2} \cap groups') = 1
  /\ LET surv == CHOOSE g \in {g1, g2} : g \in groups'
         gone == CHOOSE g \in {g1, g2} : g # surv
         kept == { p \in Pairs(members, surv) \cup Pairs(members, gone) :
                     /\ p[1] \notin {rx, ry}
                     /\ (p \in Pairs(members, gone) =>
                           ~(\E q \in Pairs(members, surv) : q[1] = p[1])) }
     IN /\ Pairs(members', gone) = {}
        /\ kept \subseteq Pairs(members', surv)
        /\ \A p \in kept, q \in kept : lookup(members', p[2], q[1]) = q[2]

\* C10: a store that finds its two ids in two distinct groups merges them
\* and preserves their members.
C10_MergePreservesMembers ==
  [][ \A x \in EmEvents, y \in EmEvents :
        (/\ emLast'.op = "store"
         /\ emLast'.a = x
         /\ emLast'.b = y
         /\ GroupOf(members, x) # {}
         /\ GroupOf(members, y) # {}
         /\ GroupOf(members, x) # GroupOf(members, y))
        => MergePost(CHOOSE g \in GroupOf(members, x) : TRUE,
                     CHOOSE g \in GroupOf(members, y) : TRUE,
                     EmRoomOf[x], EmRoomOf[y]) ]_vars

\* C11: a store that repeats the store before it (same source and target
\* event and rooms) leaves every lookup(event, room) as it was and adds no
\* group.
C11_StoreIdempotent ==
  [][ (emLast'.op = "store" /\ emLast'.again) =>
        /\ groups' = groups
        /\ \A e \in EmEvents, room \in EmRoomIds :
             lookup(members', e, room) = lookup(members, e, room) ]_vars

\* the repeated store came later than the first one, while another group
\* exists
C11_Witness ==
  /\ emLast.op = "store"
  /\ emLast.again
  /\ lookup(members, emLast.a, emLast.r2) = emLast.b
  /\ \E r \in members : r.ev = emLast.a /\ r.ts = now /\ now > DaySeconds
  /\ Cardinality(groups) > 1

\* the rows cleanup(max_age_days) at time t is to delete
TooOld(ms, max_age_days, t) ==
  { r \in ms : r.ts < t - (max_age_days * DaySeconds) }

\* C12: cleanup(max_age_days) deletes exactly the rows whose own timestamp is
\* older than the threshold and returns their number; the younger rows stay
\* as they are and keep resolving to one another; no group is left without
\* a member.
C12_CleanupExact ==
  [][ (emLast'.op = "cleanup" /\ now' = now) =>
        /\ members' = members \ TooOld(members, emLast'.r2, now)
        /\ emLast'.ret = Cardinality(TooOld(members, emLast'.r2, now))
        /\ \A x \in members', y \in members' :
             x.g = y.g =>
               /\ lookup(members, x.ev, y.room) = y.ev
               /\ lookup(members', x.ev, y.room) = y.ev
        /\ \A g \in groups' : \E r \in members' : r.g = g ]_vars

\* a cleanup took two older rows away and left a group with two younger
\* members; a group id below the highest in use is free again
C12_Witness ==
  /\ emLast.op = "cleanup"
  /\ emLast.ret >= 2
  /\ \E x \in members, y \in members : x # y /\ x.g = y.g
  /\ \E g \in 1..MaxEvents : g \notin groups /\ g < Cardinality(groups) + 1

-----------------------------------------------------------------------------
(* Claims about store and cleanup as coroutines (SpecCc)                   *)

\* every row of event_group_events is of a group in event_groups
RowsHaveGroups == \A r \in members : r.g \in groups

\* the pair of the store that returned last resolves in both directions; the
\* rows were written at emLast.ret, and with the clock still there no
\* threshold makes them too old
LastStoreResolves ==
  (/\ emLast.op = "store"
   /\ storing.pc = "idle"
   /\ emLast.ret = now)
  => /\ lookup(members, emLast.a, emLast.r2) = emLast.b
     /\ lookup(members, emLast.b, emLast.r1) = emLast.a

\* C13: however the statements of a cleanup interleave with the statements
\* of a store, every row belongs to a group of the group table, and the pair
\* of a store that returned resolves unless it is older than the threshold.
C13_ConcurrentSafety == RowsHaveGroups /\ LastStoreResolves

-----------------------------------------------------------------------------
(* Claims about the relay (Spec, SpecFault)                                *)

IsSend(call) == call.op \in {"send_text", "send_message"}

\* the calls of the last handling
LastCalls == { last.calls[i] : i \in 1..Len(last.calls) }

\* how many calls of the last handling satisfy: op is in ops and, unless
\* room is NoRoom, the call is about room
CountCalls(ops, room) ==
  Cardinality({ i \in 1..Len(last.calls) :
                  /\ last.calls[i].op \in ops
                  /\ room # NoRoom => last.calls[i].room = room })

\* the sends of the last handling into room
SendsTo(room) == CountCalls({"send_text", "send_message"}, room)

TotalSends == CountCalls({"send_text", "send_message"}, NoRoom)

\* the last handled event came from outside (it is not a puppet's event
\* delivered back)
LastFromOutside == last.event.root = last.event.id /\ last.event.id # None

LastRelayedFromPortal ==
  /\ last.event.kind = "message"
  /\ LastFromOutside
  /\ InPortals(cfg, last.event.room)
  /\ ~should_ignore_in_portal(last.event.sender, last.event.body, cfg.bot_mxid)

LastRelayedFromHub ==
  /\ last.event.kind = "message"
  /\ LastFromOutside
  /\ ~InPortals(cfg, last.event.room)
  /\ last.event.room = cfg.hub_room_id
  /\ ~should_ignore_in_hub(last.event.sender, last.event.body, cfg.bot_mxid)

\* C1: a non-ignored message arriving in a configured portal P makes
\* handle_message issue exactly one send to the hub, exactly one send to
\* every other configured portal and no send to P itself; with one portal
\* that is exactly one send, to the hub.
C1_PortalFanOut ==
  LastRelayedFromPortal =>
    /\ SendsTo(cfg.hub_room_id) = 1
    /\ \A r \in Range(PortalIds(cfg)) :
         SendsTo(r) = IF r = last.event.room THEN 0 ELSE 1
    /\ TotalSends = Len(cfg.portal_rooms)
    /\ Len(cfg.portal_rooms) = 1 => TotalSends = 1

C1_Witness ==
  /\ LastRelayedFromPortal
  /\ Len(cfg.portal_rooms) = 3
  /\ last.event.room = "!sig"
  /\ SendsTo("!hub") = 1
  /\ SendsTo("!wa") = 1
  /\ SendsTo("!tg") = 1
  /\ SendsTo("!sig") = 0

\* C2: a non-ignored message arriving in the hub makes handle_message issue
\* exactly one send to each configured portal and no send to the hub.
C2_HubFanOut ==
  LastRelayedFromHub =>
    /\ \A r \in Range(PortalIds(cfg)) : SendsTo(r) = 1
    /\ SendsTo(cfg.hub_room_id) = 0
    /\ TotalSends = Len(cfg.portal_rooms)

C2_Witness ==
  /\ LastRelayedFromHub
  /\ Len(cfg.portal_rooms) = 3
  /\ SendsTo("!wa") = 1
  /\ SendsTo("!sig") = 1
  /\ SendsTo("!tg") = 1
  /\ SendsTo("!hub") = 0

\* the events that puppets of the relay sent
RelaySent == { e \in timeline : e.root # e.id }

\* platforms and senders given to mxid_for, beyond those the handler passes
OddPlatforms ==
  { << >>, <<":">>, <<"@">>, <<"matrix">>, <<"signal">>, <<"whatsapp">> }

OddSenders == Senders \cup { << >>, <<":">>, Mxid(<<"_", "relay", "_", "u">>) }

\* C4: loop freedom.  Every identifier mxid_for produces satisfies
\* is_relay_puppet; when a message or reaction that a puppet sent is
\* delivered back, in a portal or in the hub, the handler issues no send and
\* no reaction; so an event from outside causes at most one send per room.
C4_LoopFreedom ==
  /\ \A platform \in OddPlatforms, sender \in OddSenders :
       is_relay_puppet(mxid_for(platform, sender))
  /\ \A m \in intents : is_relay_puppet(m)
  /\ \A e \in RelaySent : is_relay_puppet(e.sender)
  /\ last.event \in RelaySent =>
       \A call \in LastCalls : ~IsSend(call) /\ call.op # "react"
  /\ \A o \in timeline : \A r \in Rooms :
       Cardinality({ e \in RelaySent : /\ e.root = o.id
                                       /\ e.room = r
                                       /\ e.kind = "message" }) <= 1

C4_Witness ==
  /\ inbox = << >>
  /\ last.event \in RelaySent
  /\ last.event.kind = "reaction"
  /\ is_relay_puppet(last.event.sender)
  /\ last.calls = << >>
  /\ \E e \in RelaySent : e.kind = "message" /\ e.room = cfg.hub_room_id
  /\ \E e \in RelaySent : e.kind = "message" /\ InPortals(cfg, e.room)

\* the rooms the last event is to be relayed to
LastTargets ==
  IF InPortals(cfg, last.event.room)
  THEN {cfg.hub_room_id} \cup (Range(PortalIds(cfg)) \ {last.event.room})
  ELSE Range(PortalIds(cfg))

\* the positions in the last handling's call log that belong to the relay to
\* room: from its get_intent up to the next target's get_intent
TargetCalls(room) ==
  { i \in DOMAIN last.calls :
      \E j \in 1..i :
        /\ last.calls[j].op = "get_intent"
        /\ last.calls[j].room = room
        /\ \A k \in (j+1)..i : last.calls[k].op # "get_intent" }

\* a call of the relay to room raised
RaisedFor(room) == \E i \in TargetCalls(room) : ~last.calls[i].ok

\* every call that raised was part of a puppet acquisition or was a send
OnlyAcquireOrSendRaised ==
  \A call \in LastCalls :
    ~call.ok =>
      \/ IsSend(call)
      \/ call.op \in {"ensure_registered", "set_displayname",
                       "set_avatar_url", "send_state_event", "ensure_joined"}

\* C6: per-target failure isolation.  Whatever subset of the target rooms
\* has its puppet acquisition or its send raise, handle_message attempts
\* every target room exactly once, the targets where nothing raised receive
\* the message, and handle_message returns without raising.
C6_FailureIsolation ==
  ((LastRelayedFromPortal \/ LastRelayedFromHub) /\ OnlyAcquireOrSendRaised) =>
    /\ ~last.raised
    /\ \A r \in LastTargets :
         /\ CountCalls({"get_intent"}, r) = 1
         /\ ~RaisedFor(r) =>
              /\ SendsTo(r) = 1
              /\ \E e \in RelaySent : /\ e.root = last.event.id
                                      /\ e.room = r
                                      /\ e.body = last.event.body
    /\ \A r \in Rooms \ LastTargets : CountCalls({"get_intent"}, r) = 0

C6_Witness ==
  /\ LastRelayedFromPortal
  /\ last.event.room = "!sig"
  /\ Len(cfg.portal_rooms) = 3
  /\ ~last.raised
  /\ \E call \in LastCalls : ~call.ok /\ call.op = "ensure_registered"
  /\ RaisedFor("!hub")
  /\ \E call \in LastCalls :
       ~call.ok /\ call.op = "send_text" /\ call.room = "!wa"
  /\ SendsTo("!tg") = 1
  /\ \E e \in RelaySent : e.root = last.event.id /\ e.room = "!tg"

\* a call op of the last handling raised
RaisedIn(op) == \E call \in LastCalls : call.op = op /\ ~call.ok

\* C14: when EventMap.store raises after a send went through, handle_message
\* does not raise, the message sent stays in its room, and every target room
\* of the event is still attempted.
C14_StoreFailureNonFatal ==
  ((LastRelayedFromPortal \/ LastRelayedFromHub) /\ RaisedIn("store")) =>
    /\ ~last.raised
    /\ \A call \in LastCalls :
         (call.op = "store" /\ ~call.ok) =>
           \E e \in RelaySent : /\ e.root = last.event.id
                                 /\ e.room = call.room
                                 /\ e.id = call.ref
    /\ \A r \in LastTargets : CountCalls({"get_intent"}, r) = 1

\* the last handled event is a reaction from outside that handle_reaction
\* does not ignore
LastRelayedReaction ==
  /\ last.event.kind = "reaction"
  /\ LastFromOutside
  /\ IF InPortals(cfg, last.event.room)
     THEN ~should_ignore_in_portal(last.event.sender, NoText, cfg.bot_mxid)
     ELSE /\ last.event.room = cfg.hub_room_id
          /\ ~should_ignore_in_hub(last.event.sender, NoText, cfg.bot_mxid)

\* the calls that raised in the last handling were lookups, at least one
OnlyLookupRaised ==
  /\ RaisedIn("lookup")
  /\ \A call \in LastCalls : ~call.ok => call.op = "lookup"

\* the lookup for target room raised
LookupRaisedFor(room) ==
  \E call \in LastCalls : call.op = "lookup" /\ call.room = room /\ ~call.ok

\* C15: an EventMap.lookup that raises counts as not-found.  A reply is
\* still sent to that target as plain text; a reaction skips that target and
\* goes on to the remaining targets; neither handler raises.
C15_LookupFailureIsNotFound ==
  /\ ((LastRelayedFromPortal \/ LastRelayedFromHub) /\ OnlyLookupRaised) =>
       /\ ~last.raised
       /\ \A r \in LastTargets :
            LookupRaisedFor(r) =>
              /\ CountCalls({"send_text"}, r) = 1
              /\ CountCalls({"send_message"}, r) = 0
  /\ (LastRelayedReaction /\ OnlyLookupRaised) =>
       /\ ~last.raised
       /\ \A r \in LastTargets :
            /\ CountCalls({"lookup"}, r) = 1
            /\ LookupRaisedFor(r) => CountCalls({"react"}, r) = 0

\* call is a get_intent for a room the puppet has entered before, with a
\* profile other than the one recorded for that room
AcquiresWithNewProfile(call) ==
  /\ call.op = "get_intent"
  /\ DHas(member_profiles, <<call.mxid, call.room>>)
  /\ DGet(member_profiles, <<call.mxid, call.room>>) # <<call.name, call.avatar>>

\* calls holds a membership event of mxid in room
MemberEventIn(calls, mxid, room) ==
  \E j \in DOMAIN calls : /\ calls[j].op = "send_state_event"
                           /\ calls[j].mxid = mxid
                           /\ calls[j].room = room

\* C16: the handlers acquire a puppet with resync for the hub room and
\* passively for a portal: when the profile differs from the one recorded
\* for the room, the relay into the hub re-issues the membership event and
\* the relay into a portal does not.
C16_HubResync ==
  [][ \A i \in DOMAIN last'.calls :
        (last'.event # last.event /\ AcquiresWithNewProfile(last'.calls[i])) =>
          (MemberEventIn(last'.calls, last'.calls[i].mxid, last'.calls[i].room)
             <=> last'.calls[i].room = cfg.hub_room_id) ]_vars

-----------------------------------------------------------------------------
(* Claims about PuppetManager.get_intent (SpecPm)                          *)

\* the step is a call of get_intent
Acquired == pm'.acquires = pm.acquires + 1

\* the positions of the calls op in calls
CallsOf(calls, op) == { i \in DOMAIN calls : calls[i].op = op }

\* C17: the first get_intent of a puppet for a room issues exactly one
\* membership event, which carries the display name and the avatar of the
\* call, and no ensure_joined; the profile written is recorded for the room.
\* This holds for every room anew.
C17_FirstJoinAtomic ==
  [][ (/\ Acquired
       /\ Issued(pm.issued, <<"get_intent", last'.calls[1].mxid,
                              last'.calls[1].room>>) = 0)
      => /\ Cardinality(CallsOf(last'.calls, "send_state_event")) = 1
         /\ \A i \in CallsOf(last'.calls, "send_state_event") :
              /\ last'.calls[i].mxid = last'.calls[1].mxid
              /\ last'.calls[i].room = last'.calls[1].room
              /\ last'.calls[i].name = last'.calls[1].name
              /\ last'.calls[i].avatar = last'.calls[1].avatar
         /\ CallsOf(last'.calls, "ensure_joined") = {}
         /\ DHas(member_profiles', <<last'.calls[1].mxid, last'.calls[1].room>>)
         /\ DGet(member_profiles', <<last'.calls[1].mxid, last'.calls[1].room>>)
              = <<last'.calls[1].name, last'.calls[1].avatar>> ]_vars

\* a puppet that is in one room has just entered a second room with its
\* first get_intent for it
C17_Witness ==
  /\ pm.acquires >= 2
  /\ \E i \in CallsOf(last.calls, "send_state_event") :
       /\ Issued(pm.issued, <<"get_intent", last.calls[i].mxid,
                              last.calls[i].room>>) = 1
       /\ Issued(pm.issued, <<"send_state_event", last.calls[i].mxid,
                              last.calls[i].room>>) = 1
       /\ \E room \in PmRooms \ {last.calls[i].room} :
            Issued(pm.issued, <<"send_state_event", last.calls[i].mxid, room>>)
              = 1
       /\ last.calls[i].avatar # NoAvatar

\* the puppets of the direct calls
PmMxids == { mxid_for(platform, Mxid(<<"u">>)) : platform \in PmPlatforms }

\* no get_intent for the puppet and the room has asked for resync, up to
\* and including the call of this step
PassiveSoFar(mxid, room) == Issued(pm'.issued, <<"resync", mxid, room>>) = 0

\* C18: as long as every get_intent of a puppet for a room is passive
\* (sync_member_state=False), whatever names and avatars the calls carry, at
\* most one membership event of the puppet is issued into the room, the
\* first join; every later call issues ensure_joined for the room and no
\* membership event.
C18_PassiveNeverResyncs ==
  [][ Acquired =>
        \A mxid \in PmMxids, room \in PmRooms :
          PassiveSoFar(mxid, room) =>
            /\ Issued(pm'.issued, <<"send_state_event", mxid, room>>) <= 1
            /\ (/\ last'.calls[1].mxid = mxid
                /\ last'.calls[1].room = room
                /\ Issued(pm.issued, <<"get_intent", mxid, room>>) > 0)
               => /\ CallsOf(last'.calls, "send_state_event") = {}
                  /\ Cardinality(CallsOf(last'.calls, "ensure_joined")) = 1
                  /\ \A i \in CallsOf(last'.calls, "ensure_joined") :
                       /\ last'.calls[i].mxid = mxid
                       /\ last'.calls[i].room = room ]_vars

\* the third passive get_intent of a puppet for one room, the name and the
\* avatar having changed since the join
C18_Witness ==
  /\ pm.acquires = 3
  /\ ~pm.sync_member_state
  /\ Issued(pm.issued, <<"get_intent", last.calls[1].mxid, last.calls[1].room>>)
       = 3
  /\ Issued(pm.issued, <<"resync", last.calls[1].mxid, last.calls[1].room>>) = 0
  /\ Issued(pm.issued, <<"send_state_event", last.calls[1].mxid,
                         last.calls[1].room>>) = 1
  /\ DGet(member_profiles, <<last.calls[1].mxid, last.calls[1].room>>)
       # <<last.calls[1].name, last.calls[1].avatar>>
  /\ CallsOf(last.calls, "set_displayname") # {}
  /\ CallsOf(last.calls, "set_avatar_url") # {}
  /\ CallsOf(last.calls, "ensure_joined") # {}

\* the call of this step carries another profile than the one recorded for
\* its puppet and room
ProfileDiffers ==
  DGet(member_profiles, <<last'.calls[1].mxid, last'.calls[1].room>>)
    # <<last'.calls[1].name, last'.calls[1].avatar>>

\* C19: a get_intent with sync_member_state=True for a room the puppet has
\* joined re-issues the membership event, with the profile of the call,
\* exactly when that profile differs from the one recorded for the room, and
\* otherwise issues only ensure_joined; after a get_intent with
\* sync_member_state=True the recorded profile is the one of the call.
C19_ResyncIffChanged ==
  [][ (Acquired /\ pm'.sync_member_state) =>
        /\ DGet(member_profiles', <<last'.calls[1].mxid, last'.calls[1].room>>)
             = <<last'.calls[1].name, last'.calls[1].avatar>>
        /\ DHas(member_profiles, <<last'.calls[1].mxid, last'.calls[1].room>>) =>
             IF ProfileDiffers
             THEN /\ Cardinality(CallsOf(last'.calls, "send_state_event")) = 1
                  /\ \A i \in CallsOf(last'.calls, "send_state_event") :
                       /\ last'.calls[i].mxid = last'.calls[1].mxid
                       /\ last'.calls[i].room = last'.calls[1].room
                       /\ last'.calls[i].name = last'.calls[1].name
                       /\ last'.calls[i].avatar = last'.calls[1].avatar
                  /\ CallsOf(last'.calls, "ensure_joined") = {}
             ELSE /\ CallsOf(last'.calls, "send_state_event") = {}
                  /\ Cardinality(CallsOf(last'.calls, "ensure_joined")) = 1 ]_vars

\* the third get_intent of a puppet for one room, all with resync: the
\* second changed nothing, the third has re-issued the membership event
C19_Witness ==
  /\ pm.acquires = 3
  /\ pm.sync_member_state
  /\ Issued(pm.issued, <<"get_intent", last.calls[1].mxid, last.calls[1].room>>)
       = 3
  /\ Issued(pm.issued, <<"resync", last.calls[1].mxid, last.calls[1].room>>) = 3
  /\ Issued(pm.issued, <<"send_state_event", last.calls[1].mxid,
                         last.calls[1].room>>) = 2
  /\ CallsOf(last.calls, "send_state_event") # {}
  /\ CallsOf(last.calls, "set_displayname") = {}
  /\ DGet(member_profiles, <<last.calls[1].mxid, last.calls[1].room>>)
       = <<last.calls[1].name, last.calls[1].avatar>>

\* how many get_intent calls the puppet has had, in whatever room
Acquires(counts, mxid) ==
  Cardinality({ <<room, k>> \in PmRooms \X (1..MaxAcquires) :
                  k <= Issued(counts, <<"get_intent", mxid, room>>) })

\* C20: a puppet is registered once, by its first get_intent; a later
\* get_intent sets the account's display name exactly when the name of the
\* call differs from the cached one, and likewise the avatar, whichever room
\* the call names and whether or not the puppet is in it; after each
\* get_intent the cached name and avatar are those of the call.
C20_AccountProfile ==
  [][ Acquired =>
        /\ Issued(pm'.issued, <<"ensure_registered", last'.calls[1].mxid, NoRoom>>)
             = 1
        /\ (CallsOf(last'.calls, "ensure_registered") # {})
             <=> (Acquires(pm.issued, last'.calls[1].mxid) = 0)
        /\ Acquires(pm.issued, last'.calls[1].mxid) > 0 =>
             /\ (CallsOf(last'.calls, "set_displayname") # {})
                  <=> (DGet(display_names, last'.calls[1].mxid)
                         # last'.calls[1].name)
             /\ (CallsOf(last'.calls, "set_avatar_url") # {})
                  <=> (DGet(avatar_urls, last'.calls[1].mxid)
                         # last'.calls[1].avatar)
        /\ \A i \in CallsOf(last'.calls, "set_displayname") :
             /\ last'.calls[i].mxid = last'.calls[1].mxid
             /\ last'.calls[i].name = last'.calls[1].name
        /\ \A i \in CallsOf(last'.calls, "set_avatar_url") :
             /\ last'.calls[i].mxid = last'.calls[1].mxid
             /\ last'.calls[i].avatar = last'.calls[1].avatar
        /\ Cardinality(CallsOf(last'.calls, "set_displayname")) <= 1
        /\ Cardinality(CallsOf(last'.calls, "set_avatar_url")) <= 1
        /\ DGet(display_names', last'.calls[1].mxid) = last'.calls[1].name
        /\ DGet(avatar_urls', last'.calls[1].mxid) = last'.calls[1].avatar ]_vars

\* the third get_intent of a puppet, for a room it has not been in, with
\* the avatar taken away and the name as cached
C20_Witness ==
  /\ pm.acquires = 3
  /\ Acquires(pm.issued, last.calls[1].mxid) = 3
  /\ Issued(pm.issued, <<"get_intent", last.calls[1].mxid, last.calls[1].room>>)
       = 1
  /\ Issued(pm.issued, <<"ensure_registered", last.calls[1].mxid, NoRoom>>) = 1
  /\ CallsOf(last.calls, "ensure_registered") = {}
  /\ CallsOf(last.calls, "set_displayname") = {}
  /\ \E i \in CallsOf(last.calls, "set_avatar_url") :
       last.calls[i].avatar = NoAvatar
  /\ DGet(avatar_urls, last.calls[1].mxid) = NoAvatar

-----------------------------------------------------------------------------
(* Claims about interleaved get_intent calls (SpecGi)                      *)

\* the awaits of a call that write the profile of the puppet in a room
MemberAwaits == {"send_member_first", "send_member_resync"}

\* the tasks suspended in a membership write for GiMxid in room
WritingMember(room) ==
  { t \in Tasks : acquiring[t].room_id = room /\ acquiring[t].pc \in MemberAwaits }

\* the account of GiMxid is registered once
RegisteredOnce ==
  Issued(pm.issued, <<"ensure_registered", GiMxid, NoRoom>>) <= 1

\* a room that no call asked to resync sees one membership event of GiMxid
JoinedOnce ==
  \A room \in GiRooms :
    Issued(pm.issued, <<"resync", GiMxid, room>>) = 0
      => Issued(pm.issued, <<"send_state_event", GiMxid, room>>) <= 1

\* C21: when get_intent calls for one puppet interleave at their awaits, at
\* most one membership write for the puppet and a room is in flight, a room
\* that no call asked to resync sees the join-with-profile event once, and
\* the account is registered once.
C21_Serialized ==
  /\ RegisteredOnce
  /\ \A room \in GiRooms : Cardinality(WritingMember(room)) <= 1
  /\ JoinedOnce

-----------------------------------------------------------------------------
(* Claims about replies, correlation and reactions (Spec, SpecFault)       *)

\* the last handled event is a message from outside that is relayed
LastRelayed == LastRelayedFromPortal \/ LastRelayedFromHub

\* the positions of the last handling's sends into room
SendsInto(room) ==
  { i \in DOMAIN last.calls : IsSend(last.calls[i]) /\ last.calls[i].room = room }

\* what lookup answered for the reply relation of event in room, before the
\* handling: None for an event that replies to nothing
MappedReply(event, room) ==
  IF event.rel = None THEN None ELSE lookup(members, event.rel, room)

\* C22: a relayed message goes to each target room once; where lookup of its
\* reply-to id in the target room finds an event, the send is a threaded
\* reply to that event, which is an event of the target room and not the id
\* the source room knows; where lookup finds none, or the message replies to
\* nothing, the send is plain text.
C22_ReplyThreading ==
  [][ LastRelayed' =>
        \A room \in LastTargets' :
          \E mapped \in { MappedReply(last'.event, room) } :
            /\ Cardinality(SendsInto(room)') = 1
            /\ \A i \in SendsInto(room)' :
                 IF mapped # None
                 THEN /\ last'.calls[i].op = "send_message"
                      /\ last'.calls[i].ref = mapped
                      /\ mapped # last'.event.rel
                      /\ \E e \in timeline : e.id = mapped /\ e.room = room
                 ELSE /\ last'.calls[i].op = "send_text"
                      /\ last'.calls[i].ref = None ]_vars

\* a reply was relayed as a threaded reply to the target room's copy
C22_Witness ==
  /\ LastRelayed
  /\ last.event.rel # None
  /\ \E call \in LastCalls : call.op = "send_message" /\ call.ref # None

\* the events the last handling sent, which are the ids its sends returned
LastSent == { e \in timeline : e.root = last.event.id /\ e.id # e.root }

\* the rows of the group the last handled event belongs to
LastGroupRows ==
  { r \in members : \E x \in members : x.ev = last.event.id /\ x.g = r.g }

\* the target rooms of the last handling whose send returned an id
Succeeded == { room \in LastTargets : \E e \in LastSent : e.room = room }

\* the last handled message is resolvable exactly in the rooms it reached
ResolvesWhereSent ==
  \A room \in LastTargets :
    IF room \in Succeeded
    THEN \E e \in LastSent : e.room = room /\ lookup(members, last.event.id, room) = e.id
    ELSE lookup(members, last.event.id, room) = None

\* the group of the last handled message is the message and what was sent
GroupIsMessageAndSent ==
  { <<r.ev, r.room>> : r \in LastGroupRows }
    = {<<last.event.id, last.event.room>>}
        \cup { <<e.id, e.room>> : e \in LastSent }

\* C23: after handle_message has returned for a relayed message, the group of
\* the message is the message in its source room and one member for each
\* target room whose send succeeded: lookup of the message in a target room
\* answers the id that send returned, and nothing for a target whose send
\* failed; the handling adds one group and merges none.
C23_CorrelationOnSuccess ==
  [][ (LastRelayed' /\ ~last'.raised) =>
        /\ ResolvesWhereSent'
        /\ GroupIsMessageAndSent'
        /\ groups \subseteq groups'
        /\ members \subseteq members'
        /\ Cardinality(groups' \ groups) = 1 ]_vars

\* C23, amended: the same where at least one send succeeded; where none did,
\* the handling records nothing, so that the message is in no group and the
\* event map is as it was.
C23_CorrelationWhereSent ==
  [][ (LastRelayed' /\ ~last'.raised) =>
        IF Succeeded' = {}
        THEN /\ LastGroupRows' = {}
             /\ ResolvesWhereSent'
             /\ groups' = groups
             /\ members' = members
        ELSE /\ ResolvesWhereSent'
             /\ GroupIsMessageAndSent'
             /\ groups \subseteq groups'
             /\ members \subseteq members'
             /\ Cardinality(groups' \ groups) = 1 ]_vars

\* a relayed message reached one target and failed to reach another
C23_Witness ==
  /\ LastRelayed
  /\ ~last.raised
  /\ Succeeded # {}
  /\ LastTargets \ Succeeded # {}

\* the copies of the message the last handled reaction refers to: the
\* message as it first arrived and what the relay sent for it, by room
ReactedCopies ==
  { c \in timeline :
      /\ c.kind = "message"
      /\ \E e \in timeline : e.id = last.event.rel /\ e.root = c.root }

\* the positions of the last handling's send-reactions into room
ReactsInto(room) ==
  { i \in DOMAIN last.calls : last.calls[i].op = "react" /\ last.calls[i].room = room }

\* C24: a reaction that is not ignored, on the copy its room holds of a
\* relayed message, makes handle_reaction send one reaction with the same key
\* into every target room that holds a copy, addressed to that room's copy,
\* and none into a room that holds no copy; a reaction on a relayed copy
\* reaches the message as it first arrived.
C24_ReactAnyCopy ==
  LastRelayedReaction =>
    /\ \A room \in LastTargets :
         \E copies \in { { c \in ReactedCopies : c.room = room } } :
           IF copies = {} THEN ReactsInto(room) = {}
           ELSE /\ Cardinality(copies) = 1
                /\ Cardinality(ReactsInto(room)) = 1
                /\ \A i \in ReactsInto(room), c \in copies :
                     /\ last.calls[i].ref = c.id
                     /\ last.calls[i].key = last.event.key
    /\ \A c \in ReactedCopies :
         (c.id = c.root /\ c.room # last.event.room)
           => \E call \in LastCalls : call.op = "react" /\ call.ref = c.id /\ call.room = c.room

\* a reaction on a relayed copy was sent on to the message as it first arrived
\* and to another relayed copy
C24_Witness ==
  /\ LastRelayedReaction
  /\ \E c \in ReactedCopies :
       /\ c.id = c.root
       /\ c.room # last.event.room
       /\ \E call \in LastCalls : call.op = "react" /\ call.ref = c.id
  /\ \E call \in LastCalls, c \in ReactedCopies :
       call.op = "react" /\ call.ref = c.id /\ c.id # c.root

\* the positions of the last handling's calls of op about room
CallsInto(op, room) ==
  { i \in DOMAIN last.calls : last.calls[i].op = op /\ last.calls[i].room = room }

\* the target rooms of the last handled reaction in which the event reacted
\* to has no member
Unmapped ==
  { room \in LastTargets : lookup(members, last.event.rel, room) = None }

\* C25: where the event a reaction refers to has no member in a target room,
\* handle_reaction sends no reaction into that room and acquires no puppet
\* for it; it still goes on to every other target, acquiring a puppet for
\* each room that has a member, and returns without raising.
C25_UnmappedSkipped ==
  (LastRelayedReaction /\ ~RaisedIn("lookup")) =>
    /\ \A room \in Unmapped :
         /\ CallsInto("react", room) = {}
         /\ CallsInto("get_intent", room) = {}
         /\ Cardinality(CallsInto("lookup", room)) = 1
    /\ \A room \in LastTargets \ Unmapped :
         /\ Cardinality(CallsInto("lookup", room)) = 1
         /\ Cardinality(CallsInto("get_intent", room)) = 1
    /\ ~last.raised

\* a reaction was sent into a room that holds a copy, after a room that
\* holds none was passed over
C25_Witness ==
  /\ LastRelayedReaction
  /\ ~RaisedIn("lookup")
  /\ \E skipped \in Unmapped, room \in LastTargets \ Unmapped :
       \E i \in CallsInto("lookup", skipped), j \in CallsInto("react", room) :
         i < j

-----------------------------------------------------------------------------
(* Claims about mxid_for (SpecMx)                                          *)

\* identifier has the form @_relay_{platform}_{hash8}:{domain}
HasPuppetForm(mxid, platform) ==
  \E h \in { HashSymbols[i] : i \in DOMAIN HashSymbols } :
    mxid = <<"@", "_", "relay", "_">> \o platform \o <<"_", h, ":">> \o DOMAIN_NAME

\* C26: the identifier mxid_for derives depends on the platform, the sender
\* and the domain alone: two managers of one domain derive the same
\* identifier from the same arguments; the identifier is
\* @_relay_{platform}_{hash8}:{domain}; arguments that differ in the platform
\* give different identifiers.
C26_DerivedIdentifier ==
  derived.done =>
    /\ (derived.platform = derived.other_platform /\ derived.sender = derived.other_sender)
         => derived.mxid = derived.other_mxid
    /\ HasPuppetForm(derived.mxid, derived.platform)
    /\ HasPuppetForm(derived.other_mxid, derived.other_platform)
    /\ derived.platform # derived.other_platform
         => derived.mxid # derived.other_mxid

\* identifiers were derived for one sender on two platforms, one platform's
\* label ending like the other's identifier
C26_Witness ==
  /\ derived.done
  /\ derived.sender = derived.other_sender
  /\ derived.platform = <<"signal">>
  /\ derived.other_platform = <<"signal", "_", "h0">>
  /\ derived.mxid # derived.other_mxid

-----------------------------------------------------------------------------
(* Claims about what handle_reaction ignores (Spec)                        *)

\* the senders and rooms whose reactions are not relayed
ReactionIgnored(sender, room) ==
  \/ sender = cfg.bot_mxid
  \/ is_relay_puppet(sender)
  \/ is_bridge_bot(sender)
  \/ is_bridge_puppet(sender) /\ room = cfg.hub_room_id
  \/ ~InPortals(cfg, room) /\ room # cfg.hub_room_id

\* C27: a reaction from the relay's own account, from a relay puppet, from a
\* bridge's automation account, from a bridge puppet in the hub, or in a room
\* that is neither portal nor hub makes handle_reaction call nothing; any
\* other reaction, a bridge puppet's in a portal among them, is sent into
\* every target room that holds a copy.  The empty body the predicates are
\* given carries no attribution.
C27_ReactionFilter ==
  last.event.kind = "reaction" =>
    /\ ~has_attribution(NoText)
    /\ IF ReactionIgnored(last.event.sender, last.event.room)
       THEN last.calls = << >>
       ELSE \A room \in LastTargets \ Unmapped :
              Cardinality(CallsInto("react", room)) = 1

\* a bridge puppet's reaction in a portal was relayed
C27_Witness ==
  /\ last.event.kind = "reaction"
  /\ is_bridge_puppet(last.event.sender)
  /\ InPortals(cfg, last.event.room)
  /\ \E call \in LastCalls : call.op = "react" /\ call.room = cfg.hub_room_id

-----------------------------------------------------------------------------
(* Claims about reactions that fail (SpecLossy)                            *)

\* the reaction events the last handling sent into room
ReactionsSent(room) ==
  { e \in LastSent : e.kind = "reaction" /\ e.room = room }

\* C28: when the puppet acquisition or the send-reaction of a target room
\* raises, handle_reaction does not raise and still attempts every target
\* room that has a member, once each: one acquisition per such room, and one
\* reaction sent where nothing raised.
C28_ReactionIsolation ==
  (LastRelayedReaction /\ ~RaisedIn("lookup")) =>
    /\ ~last.raised
    /\ \A room \in LastTargets \ Unmapped :
         /\ Cardinality(CallsInto("get_intent", room)) = 1
         /\ Cardinality(CallsInto("react", room)) <= 1
         /\ ~RaisedFor(room) =>
              /\ Cardinality(CallsInto("react", room)) = 1
              /\ Cardinality(ReactionsSent(room)) = 1

\* the acquisition raised for one room, the send-reaction for another, and a
\* third received the reaction
C28_Witness ==
  /\ LastRelayedReaction
  /\ ~last.raised
  /\ \E call \in LastCalls : call.op = "send_state_event" /\ ~call.ok
  /\ \E call \in LastCalls : call.op = "react" /\ ~call.ok
  /\ \E room \in LastTargets : ~RaisedFor(room) /\ ReactionsSent(room) # {}
  /\ \E i \in DOMAIN last.calls, j \in DOMAIN last.calls :
       i < j /\ ~last.calls[i].ok /\ last.calls[j].op = "react" /\ last.calls[j].ok

-----------------------------------------------------------------------------
(* Claims about the puppet an event is sent by (Spec)                      *)

\* the puppet for an event of sender in room: the portal's label,
\* lower-cased, or in the hub the label read off the sender
PuppetFor(room, sender) ==
  mxid_for(IF InPortals(cfg, room)
           THEN Lower(PortalLabel(cfg, room))
           ELSE Lower(platform_label(sender)),
           sender)

\* C29: every acquisition, send and send-reaction of a handling is made as
\* the puppet derived from the sender and, for a portal event, the portal's
\* configured label lower-cased, for a hub event the label read off the
\* sender's identifier; so all targets of one event, and the messages and
\* reactions of one sender from one room, have the same puppet.
C29_PuppetPlatform ==
  /\ \A call \in LastCalls :
       call.op \in {"get_intent", "send_text", "send_message", "react"}
         => call.mxid = PuppetFor(last.event.room, last.event.sender)
  /\ \A e \in RelaySent :
       \E src \in timeline :
         /\ src.id = e.root
         /\ e.sender = PuppetFor(src.room, src.sender)

\* a bridge puppet of one platform wrote in the portal of another, and its
\* message and its reaction went out as the puppet of the portal's platform
C29_Witness ==
  /\ LastRelayedReaction
  /\ last.event.sender = Mxid(<<"_", "signal", "_", "u">>)
  /\ last.event.room = "!wa"
  /\ \E call \in LastCalls :
       /\ call.op = "react"
       /\ call.mxid = mxid_for(<<"whatsapp">>, last.event.sender)
       /\ \E e \in RelaySent :
            e.id = call.ref /\ e.kind = "message" /\ e.sender = call.mxid

-----------------------------------------------------------------------------
(* Claims about attributed messages (Spec)                                 *)

\* C30: a message whose body carries relay attribution, in the bold form or
\* in the form of a capitalised name with colon and space, makes
\* handle_message call nothing, whoever sent it and in whichever room: no
\* profile is fetched, no puppet acquired, nothing sent and nothing stored.
C30_AttributedNeverRelayed ==
  [][ (/\ last'.event.kind = "message"
       /\ ReBold(last'.event.body) \/ RePlain(last'.event.body)) =>
        /\ last'.calls = << >>
        /\ ~last'.raised
        /\ members' = members
        /\ groups' = groups
        /\ intents' = intents
        /\ member_profiles' = member_profiles
        /\ timeline' = timeline \cup {last'.event}
        /\ Len(inbox') <= Len(inbox) ]_vars

\* an ordinary user's message in the bold form arrived in a portal after one
\* of the name form had arrived in the hub, and nothing was sent for either
C30_Witness ==
  /\ last.event.kind = "message"
  /\ ReBold(last.event.body)
  /\ last.event.sender = Mxid(<<"u">>)
  /\ InPortals(cfg, last.event.room)
  /\ last.calls = << >>
  /\ \E e \in timeline :
       /\ e.kind = "message"
       /\ RePlain(e.body)
       /\ e.room = cfg.hub_room_id
       /\ e.sender = Mxid(<<"u">>)
  /\ RelaySent = {}

-----------------------------------------------------------------------------
(* Claims about the sender's profile (Spec)                                *)

\* get_profile raised or answered an empty display name in the last handling
ProfileFailed ==
  \E call \in LastCalls :
    call.op = "get_profile" /\ (~call.ok \/ call.name = NoText)

\* the rooms the last handling has something to send into: every target of
\* a message, the targets holding a copy for a reaction
Reachable ==
  IF last.event.kind = "message" THEN LastTargets ELSE LastTargets \ Unmapped

\* C31: when get_profile raises or answers an empty display name, the
\* handling of a message or a reaction does not raise and goes on to every
\* target: each is acquired once, under the local part of the sender's
\* identifier as display name and without avatar, and receives its send.
C31_ProfileFallback ==
  ((LastRelayed \/ LastRelayedReaction) /\ ProfileFailed) =>
    /\ ~last.raised
    /\ \A call \in LastCalls :
         call.op = "get_intent" =>
           /\ call.name = Localpart(last.event.sender)
           /\ call.avatar = NoAvatar
    /\ \A room \in Reachable :
         /\ Cardinality(CallsInto("get_intent", room)) = 1
         /\ Cardinality(SendsInto(room)) + Cardinality(CallsInto("react", room)) = 1

\* a profile answered with an avatar and no name, and the message went to
\* hub and portal under the local part, without the avatar
C31_Witness ==
  /\ LastRelayedFromPortal
  /\ \E call \in LastCalls :
       call.op = "get_profile" /\ call.ok /\ call.name = NoText /\ call.avatar # NoAvatar
  /\ Cardinality(LastTargets) >= 2
  /\ \A room \in LastTargets : SendsInto(room) # {}
  /\ \E call \in LastCalls :
       call.op = "get_intent" /\ call.name = <<"u">> /\ call.avatar = NoAvatar

-----------------------------------------------------------------------------
(* Claims about events that are not relayed (Spec)                         *)

\* event arrived in a room that is neither portal nor hub, or the predicate
\* of its room says to ignore it; a reaction's body is empty
NotRelayed(event) ==
  IF InPortals(cfg, event.room)
  THEN should_ignore_in_portal(event.sender, event.body, cfg.bot_mxid)
  ELSE IF event.room = cfg.hub_room_id
       THEN should_ignore_in_hub(event.sender, event.body, cfg.bot_mxid)
       ELSE TRUE

\* C32: the handling of a message or reaction that arrived in an unrelated
\* room, or that the predicate of its room ignores, changes nothing: it
\* makes no call (no profile lookup, no acquisition, no send, no store), the
\* puppet caches and the event map are as before, and no event is sent.
C32_IgnoredChangesNothing ==
  [][ NotRelayed(last'.event) =>
        /\ last'.calls = << >>
        /\ ~last'.raised
        /\ intents' = intents
        /\ display_names' = display_names
        /\ avatar_urls' = avatar_urls
        /\ member_profiles' = member_profiles
        /\ groups' = groups
        /\ members' = members
        /\ timeline' \ {last'.event} = timeline \ {last'.event}
        /\ Len(inbox') <= Len(inbox) ]_vars

\* a bridge puppet's reaction in the hub, on a user's message there that had
\* been relayed to the portals, was ignored
C32_Witness ==
  /\ last.event.kind = "reaction"
  /\ last.event.room = cfg.hub_room_id
  /\ is_bridge_puppet(last.event.sender)
  /\ ~is_bridge_bot(last.event.sender)
  /\ last.calls = << >>
  /\ \E e \in RelaySent : e.root = last.event.rel /\ e.kind = "message"

-----------------------------------------------------------------------------
(* Claims about the cleanup task (SpecLoopLive)                            *)

\* C33: whatever a cleanup does, the task keeps its schedule: after a cleanup
\* that failed the task sleeps and cleanup is called again, and unless
\* shutdown cancels the task cleanup is called infinitely often.
C33_CleanupKeepsSchedule ==
  /\ (loop.pc = "sleep" /\ loop.failed)
       ~> (loop.pc = "cleanup" \/ loop.pc = "cancelled")
  /\ []<>(loop.pc = "cleanup") \/ <>[](loop.pc = "cancelled")
  /\ [](loop.pc \in {"sleep", "cleanup", "cancelled"})

\* cleanup is called again after a cleanup that failed
C33_Witness ==
  /\ loop.pc = "cleanup"
  /\ loop.failed
  /\ members # {}

\* The rows (w, z) that collide when the groups of x and y merge: w is the
\* member the surviving group has in a room, z the member the absorbed group
\* has in the same room.  The surviving group is the one of the two that is
\* still there after the call.
Collisions(x, y) ==
  IF \/ GroupOf(members, x) = {}
     \/ GroupOf(members, y) = {}
     \/ GroupOf(members, x) = GroupOf(members, y)
  THEN {}
  ELSE LET both == GroupOf(members, x) \cup GroupOf(members, y)
       IN { p \in members \X members :
              /\ p[1].g \in both /\ p[1].g \in groups'
              /\ p[2].g \in both /\ p[2].g \notin groups'
              /\ p[1].room = p[2].room }

\* the surviving group's member w is still its member for the room and the
\* colliding id of z resolves to no group
FirstWriterWins(w, z) ==
  /\ \E r \in members' : r.g = w.g /\ r.room = w.room /\ r.ev = w.ev
  /\ GroupOf(members', z.ev) = {}

\* the statement as written: first-writer-wins for every collision, after the
\* whole store call
C34_FirstWriterWinsAlways ==
  [][ \A x \in EmEvents, y \in EmEvents :
        (emLast'.op = "store" /\ emLast'.a = x /\ emLast'.b = y)
        => \A p \in Collisions(x, y) : FirstWriterWins(p[1], p[2]) ]_vars

\* C34: when a store merges two groups and a member of the absorbed group
\* collides in its room with a member of the surviving group, the surviving
\* group's member remains and the colliding event id resolves to no group
\* after the whole store call, unless the colliding id is one of the two ids
\* being stored: then the store's own insert replaces the surviving group's
\* member by it, and it is the replaced member that resolves to no group.
C34_MergeCollision ==
  [][ \A x \in EmEvents, y \in EmEvents :
        (emLast'.op = "store" /\ emLast'.a = x /\ emLast'.b = y)
        => \A p \in Collisions(x, y) :
             IF p[2].ev \in {x, y}
             THEN /\ GroupOf(members', p[2].ev) = {p[1].g}
                  /\ GroupOf(members', p[1].ev) = {}
             ELSE FirstWriterWins(p[1], p[2]) ]_vars

\* a merge has just dropped a colliding id that was not being stored, and the
\* room still has its member
C34_Witness ==
  /\ emLast.op = "store"
  /\ \E z \in emLast.collided :
       /\ z \notin {emLast.a, emLast.b}
       /\ GroupOf(members, z) = {}
       /\ \E w \in members : w.room = EmRoomOf[z] /\ w.ev # z

\* C35: whatever configuration the relay started with, no send and no
\* reaction of the last handling went into the room its event arrived in.
C35_NeverBackToSource ==
  \A i \in DOMAIN last.calls :
    (IsSend(last.calls[i]) \/ last.calls[i].op = "react")
      => last.calls[i].room # last.event.room

\* the sender is not ignored for a reason both filters share: it is not the
\* relay's own account, not a relay puppet, not a bridge automation account,
\* and the body carries no attribution
NotOtherwiseIgnored ==
  /\ cSender # cOwn
  /\ ~StartsWith(LocalOf(cSender), <<"_", "relay", "_">>)
  /\ ~IsAutomationAccount(cSender)
  /\ ~(ReBold(cBody) \/ RePlain(cBody))

\* C36: whatever should_ignore_in_portal ignores, should_ignore_in_hub
\* ignores too, and the two answers differ exactly for the senders with a
\* bridge puppet prefix that are not otherwise ignored.
C36_HubAtLeastAsStrict ==
  cOut.done =>
    /\ (cOut.portal => cOut.hub)
    /\ (cOut.portal # cOut.hub) <=> (HasBridgePrefix(cSender) /\ NotOtherwiseIgnored)

\* a bridge puppet with a plain body: relayed from a portal, ignored in the hub
C36_Witness ==
  /\ cOut.done
  /\ cSender = Mxid(<<"_", "whatsapp", "_">>)
  /\ cBody = <<"U", "l", "l", "l", "l">>
  /\ cOut.portal # cOut.hub

-----------------------------------------------------------------------------
(* Claims about the platform of hub events (Spec)                          *)

\* the calls of the last handling that are made as a puppet
PuppetCalls ==
  { call \in LastCalls :
      call.op \in {"get_intent", "send_text", "send_message", "react"} }

\* C37: an event of the hub that is relayed has a sender whose inferred
\* platform label is Matrix, and every call that relays it is made as the
\* puppet derived with platform matrix; a call made as the puppet of another
\* platform relays an event of a portal, and the platform is that portal's
\* configured label, lower-cased.
C37_HubPlatformIsMatrix ==
  /\ (PuppetCalls # {} /\ ~InPortals(cfg, last.event.room))
       => /\ last.event.room = cfg.hub_room_id
          /\ platform_label(last.event.sender) = <<"Matrix">>
  /\ \A call \in PuppetCalls :
       /\ ~InPortals(cfg, last.event.room)
            => call.mxid = mxid_for(<<"matrix">>, last.event.sender)
       /\ call.mxid # mxid_for(<<"matrix">>, last.event.sender)
            => /\ InPortals(cfg, last.event.room)
               /\ call.mxid = mxid_for(Lower(PortalLabel(cfg, last.event.room)),
                                       last.event.sender)

\* a message of a Matrix user in the hub went out to a portal as that
\* user's matrix puppet
C37_Witness ==
  /\ last.event.kind = "message"
  /\ last.event.room = cfg.hub_room_id
  /\ last.event.sender = Mxid(<<"u">>)
  /\ \E call \in PuppetCalls :
       /\ IsSend(call)
       /\ call.ok
       /\ call.mxid = mxid_for(<<"matrix">>, last.event.sender)

-----------------------------------------------------------------------------
(* Claims about a refused membership event (SpecPmRefused)                 *)

\* the (puppet, room) pair of the get_intent that just ran
AcquiredKey == <<last'.calls[1].mxid, last'.calls[1].room>>

\* the positions in calls of the membership events of key that went through
\* (ok) or were refused (~ok)
MemberEvents(calls, key, ok) ==
  { i \in DOMAIN calls : /\ calls[i].op = "send_state_event"
                         /\ <<calls[i].mxid, calls[i].room>> = key
                         /\ calls[i].ok = ok }

\* C38: a get_intent changes the recorded member profiles only by recording,
\* for its puppet and room, the profile of a membership event that went
\* through; when the membership event is refused nothing is recorded and the
\* get_intent fails; and the next get_intent for a pair that failed and has
\* no record sends the membership event again and no ensure_joined.
C38_RecordedAfterJoin ==
  [][ Acquired =>
        /\ member_profiles' # member_profiles
             => /\ \E i \in MemberEvents(last'.calls, AcquiredKey, TRUE) :
                     member_profiles' =
                       DPut(member_profiles, AcquiredKey,
                            <<last'.calls[i].name, last'.calls[i].avatar>>)
                /\ AcquiredKey \notin pm'.failed
        /\ MemberEvents(last'.calls, AcquiredKey, FALSE) # {}
             => /\ member_profiles' = member_profiles
                /\ AcquiredKey \in pm'.failed
        /\ (AcquiredKey \in pm.failed /\ ~DHas(member_profiles, AcquiredKey))
             => /\ Cardinality(CallsOf(last'.calls, "send_state_event")) = 1
                /\ CallsOf(last'.calls, "ensure_joined") = {} ]_vars

\* the first get_intent of a puppet for a room was refused, and the second,
\* which did not ask for resync, sent the membership event again and recorded
\* the profile
C38_Witness ==
  \E key \in { <<mxid_for(<<"whatsapp">>, Mxid(<<"u">>)), "!wa">> } :
    /\ Issued(pm.issued, <<"get_intent", key[1], key[2]>>) = 2
    /\ Issued(pm.issued, <<"send_state_event", key[1], key[2]>>) = 2
    /\ Issued(pm.issued, <<"resync", key[1], key[2]>>) = 0
    /\ key \notin pm.failed
    /\ DHas(member_profiles, key)
    /\ MemberEvents(last.calls, key, TRUE) # {}
    /\ CallsOf(last.calls, "ensure_joined") = {}

-----------------------------------------------------------------------------
(* Claims about a replaced member (SpecEm)                                 *)

\* C39: after store(a, r1, b, r2) followed by store(a, r1, c, r2) with
\* another id c, lookup(a, r2) is c, lookup(c, r1) is a, and b resolves to
\* no group: lookup(b, r1) is None.
C39_LaterStoreReplaces ==
  (emLast.op = "store" /\ emLast.replaced # None)
  => /\ lookup(members, emLast.a, emLast.r2) = emLast.b
     /\ lookup(members, emLast.b, emLast.r1) = emLast.a
     /\ lookup(members, emLast.replaced, emLast.r1) = None
     /\ GroupOf(members, emLast.replaced) = {}

\* event 1 was the member of its room for event 2, and the store of event 5
\* of the same room took its place
C39_Witness ==
  /\ emLast.op = "store"
  /\ emLast.a = 2
  /\ emLast.b = 5
  /\ emLast.replaced = 1
  /\ lookup(members, 2, EmRoomOf[5]) = 5

====
